---- MODULE Spec2Model ----
(***************************************************************************)
(* The token cache of goauth (lru.go): a map from token identifier to a    *)
(* cache item, a recency list (most recently used at the front), a         *)
(* remaining-capacity counter and a minimum time in cache.                 *)
(*                                                                         *)
(* Specification Spec runs addToken and getToken one call at a time; the   *)
(* clock (time.Now(), read in whole seconds) advances between calls.       *)
(***************************************************************************)
EXTENDS Integers, Sequences, FiniteSets, TLC

---------------------------------------------------------------------------
(* Bounds of the model.                                                    *)

\* Spec constructs caches of capacity 0 .. MaxCapacity
MaxCapacity == 3

\* the clock runs from 0 to MaxClock seconds
MaxClock == 1

---------------------------------------------------------------------------
(* Program constants.                                                      *)

\* for i := 0; i < 50; i++   (trimCache)
TrimBatch == 50

\* newTokenCache(4, 1000) in the tests: the capacity and the long retention
TestCapacity == 4
LongRetention == 1000

\* for i := 0; i < 10; i++   (the insertion loop of TestCapacity)
TestInserts == 10

\* values.Get(key) of an absent key, request.FormValue of an absent
\* parameter, token{}: the empty string
Empty == -1

\* the threads of SpecConc, and the calls they make at most, in all
Threads == {1, 2}
MaxCalls == 3

\* Spec draws identifiers from one more than the largest cache can hold
NumIds == MaxCapacity + 1
Ids == 1..NumIds

\* capacities a cache is constructed with (0 is a cache that holds nothing)
Capacities == 0..MaxCapacity

\* minimum retentions, in seconds: none, one second, longer than any run
Retentions == {0, 1, LongRetention}

\* type token struct { token, secret string }
Token(id, secret) == [token |-> id, secret |-> secret]

\* the tokens the callers put: token i with secret i, as the tests build
\* them, and one more token for identifier 1 with another secret
Tokens == {Token(i, i) : i \in Ids} \cup {Token(1, 0)}

VARIABLES
    remCapacity,     \* tokenCache.remCapacity
    minTimeInCache,  \* tokenCache.minTimeInCache (seconds)
    items,           \* tokenCache.items: identifier -> [tok, timeIn]
    list,            \* tokenCache.list: identifiers, front (head) first
    now,             \* the reading of time.Now(), in seconds
    capacity,        \* the capacity newTokenCache was called with
    last,            \* the call that returned last, and what it did
    puts             \* the identifiers put so far, while every call of the
                     \* run was an addToken of an identifier never put
                     \* before; <<0>> once the run is of another shape

\* The cache under concurrent callers (SpecConc): every thread is at a
\* place of lru.go / oauth1.go, the items are separate objects reached by
\* pointer, and the mutex is held by at most one thread.
VARIABLES
    mutex,           \* tokenCache.mutex: 0 when free, else the thread holding it
    heap,            \* the tokenCacheItem objects: pointer -> [tok, timeIn]
    refs,            \* tokenCache.items: identifier -> pointer
    elems,           \* tokenCache.list: pointers, front (head) first
    pc,              \* thread -> the place it is at
    loc,             \* thread -> its call: arguments, locals and results
    calls            \* the number of calls the threads have begun

seqVars == <<items, list, last, puts>>
conVars == <<mutex, heap, refs, elems, pc, loc, calls>>

vars == <<remCapacity, minTimeInCache, items, list, now, capacity, last, puts,
          mutex, heap, refs, elems, pc, loc, calls>>

---------------------------------------------------------------------------
(* Helpers on sequences and maps.                                          *)

Range(s) == {s[i] : i \in 1..Len(s)}

\* list.Remove / the unlinking half of list.MoveToFront
Without(s, x) == SelectSeq(s, LAMBDA y : y # x)

\* delete(c.items, key)
Delete(m, k) == [x \in DOMAIN m \ {k} |-> m[x]]

\* c.items[key] = item
Store(m, k, v) == [x \in DOMAIN m \cup {k} |-> IF x = k THEN v ELSE m[x]]

\* the cache as one value
Cache == [remCapacity |-> remCapacity, items |-> items, list |-> list]

\* func (c *tokenCache) size() int
size(c) == Cardinality(DOMAIN c.items)

\* c.list.Back() / c.list.Front(); 0 stands for nil
Back(c) == IF c.list = <<>> THEN 0 ELSE c.list[Len(c.list)]
Front(c) == IF c.list = <<>> THEN 0 ELSE c.list[1]

---------------------------------------------------------------------------
(* The operations of lru.go.                                               *)

\* newTokenCache(capacity, minTimeInCacheSeconds)
newTokenCache(cap) == [remCapacity |-> cap, items |-> <<>>, list |-> <<>>]

\* the age test with the comparison turned around
tooYoungFlipped(timeSinceInsert, minTime) == timeSinceInsert > minTime

\* the age test off by one: an item exactly minTime old still counts as young
tooYoungOrEqual(timeSinceInsert, minTime) == timeSinceInsert <= minTime

\* timeSinceInsert < float64(c.minTimeInCache)
tooYoung(timeSinceInsert, minTime) == timeSinceInsert < minTime

\* the capacity test off by one: trims only below zero
needsTrimLate(c) == c.remCapacity < 0

\* if c.remCapacity <= 0 { trimCache }
needsTrim(c) == c.remCapacity <= 0

\* the cache after trimCache has removed the n items at the back of the
\* list of c: list.Remove, delete and remCapacity++ for each of them
Trimmed(c, n) ==
    [remCapacity |-> c.remCapacity + n,
     items |-> [x \in {c.list[k] : k \in 1..(Len(c.list) - n)} |->
                   c.items[x]],
     list |-> SubSeq(c.list, 1, Len(c.list) - n)]

\* the item trimCache removes in its k-th iteration: the k-th from the back
\* of the list of the cache c it was called on
Removed(c, k) == c.items[c.list[Len(c.list) + 1 - k]]

\* the iterations trimCache can make at most: 50, or one for every item
\* (then c.list.Back() is nil)
MostIterations(c) ==
    IF Len(c.list) < TrimBatch THEN Len(c.list) ELSE TrimBatch

\* the least number of a set of numbers that is not empty
Least(S) == CHOOSE k \in S : \A m \in S : k <= m

\* a loop of trimCache that goes on after an item younger than the minimum
\* time in cache
trimLoopThrough(c, minTime, t, i, acc) ==
    IF MostIterations(c) <= i THEN acc
    ELSE [cache |-> Trimmed(c, MostIterations(c)), success |-> TRUE,
          evicted |-> acc.evicted + (MostIterations(c) - i),
          young |-> acc.young + Cardinality(
              {k \in (i + 1)..MostIterations(c) :
                  t - Removed(c, k).timeIn < minTime})]

\* the loop of trimCache after i iterations on the cache c it was called
\* on: it goes on to the first iteration that removes an item younger than
\* the minimum time in cache, or else to the last one it can make; the
\* result is the cache, success, the number of items removed and the
\* number of them that were younger than the minimum time when removed
trimLoop(c, minTime, t, i, acc) ==
    LET stops == {k \in (i + 1)..MostIterations(c) :
                     tooYoung(t - Removed(c, k).timeIn, minTime)}
        done == IF stops = {} THEN MostIterations(c) ELSE Least(stops)
    IN IF done <= i THEN acc
       ELSE [cache |-> Trimmed(c, done), success |-> TRUE,
             evicted |-> acc.evicted + (done - i),
             young |-> acc.young + (IF stops = {} THEN 0 ELSE 1)]

\* func (c *tokenCache) trimCache() bool
trimCache(c, minTime, t) ==
    trimLoop(c, minTime, t, 0,
             [cache |-> c, success |-> FALSE, evicted |-> 0, young |-> 0])

\* promote without c.list.MoveToFront: only the timestamp is refreshed
promoteInPlace(c, id, t) == [c EXCEPT !.items[id].timeIn = t]

\* func (c *tokenCache) promote(item)
promote(c, id, t) ==
    [c EXCEPT !.items[id].timeIn = t,
              !.list = <<id>> \o Without(c.list, id)]

\* the else branch of addToken: a new item at the front of the list
insert(c, tok, t) ==
    [remCapacity |-> c.remCapacity - 1,
     items |-> Store(c.items, tok.token, [tok |-> tok, timeIn |-> t]),
     list |-> <<tok.token>> \o c.list]

\* func (c *tokenCache) addToken(oauthToken token) bool
addToken(c, minTime, tok, t) ==
    LET tr == IF needsTrim(c)
              THEN trimCache(c, minTime, t)
              ELSE [cache |-> c, success |-> TRUE, evicted |-> 0, young |-> 0]
        c1 == tr.cache
    IN IF needsTrim(c) /\ ~tr.success
       THEN [cache |-> c1, ok |-> FALSE, evicted |-> tr.evicted, young |-> tr.young]
       ELSE [cache |-> IF tok.token \in DOMAIN c1.items
                       THEN promote([c1 EXCEPT !.items[tok.token].tok = tok],
                                    tok.token, t)
                       ELSE insert(c1, tok, t),
             ok |-> TRUE, evicted |-> tr.evicted, young |-> tr.young]

\* a lookup that consumes the entry it returns
getTokenOnce(c, id, t) ==
    IF id \notin DOMAIN c.items
    THEN [cache |-> c, ok |-> FALSE, tok |-> Token(0, 0)]
    ELSE [cache |-> [remCapacity |-> c.remCapacity + 1,
                     items |-> Delete(c.items, id),
                     list |-> Without(c.list, id)],
          ok |-> TRUE, tok |-> c.items[id].tok]

\* func (c *tokenCache) getToken(tok string) (token, error)
getToken(c, id, t) ==
    IF id \notin DOMAIN c.items
    THEN [cache |-> c, ok |-> FALSE, tok |-> Token(0, 0)]
    ELSE [cache |-> promote(c, id, t), ok |-> TRUE, tok |-> c.items[id].tok]

---------------------------------------------------------------------------
(* The state machine.                                                      *)

\* last: the operation, its argument and result (ok: true / nil error; secret:
\* the secret put or returned), the number of items the call removed and how
\* many of them were younger than the minimum time in cache, and whether, when
\* the call began, the cache had no remaining capacity (full), the
\* identifier was in the map (found), every item was younger than the
\* minimum time in cache (allYoung), what the list (before) and the keys of
\* the map (ids) were, and whether the call before was a successful getToken
\* of the same identifier (again)
NoCall == [op |-> "none", id |-> 0, ok |-> TRUE, secret |-> 0,
           evicted |-> 0, young |-> 0, full |-> FALSE, found |-> FALSE,
           allYoung |-> TRUE, before |-> <<>>, ids |-> {}, again |-> FALSE]

\* every item of the cache is younger than the minimum time in cache at t
AllYoung(c, minTime, t) ==
    \A id \in DOMAIN c.items : t - c.items[id].timeIn < minTime

\* no thread is running: the variables of SpecConc at rest
NoThreads ==
    /\ mutex = 0
    /\ heap = <<>>
    /\ refs = <<>>
    /\ elems = <<>>
    /\ pc = <<>>
    /\ loc = <<>>
    /\ calls = 0

Init ==
    /\ capacity \in Capacities
    /\ minTimeInCache \in Retentions
    /\ remCapacity = newTokenCache(capacity).remCapacity
    /\ items = newTokenCache(capacity).items
    /\ list = newTokenCache(capacity).list
    /\ now = 0
    /\ last = NoCall
    /\ puts = <<>>
    /\ NoThreads

\* time passes between two calls
Tick ==
    /\ now < MaxClock
    /\ now' = now + 1
    /\ UNCHANGED <<remCapacity, minTimeInCache, items, list, capacity, last, puts>>
    /\ UNCHANGED conVars

\* one call of addToken with a token of S
Put(S) ==
    \E tok \in S :
        \E r \in {addToken(Cache, minTimeInCache, tok, now)} :
           /\ remCapacity' = r.cache.remCapacity
           /\ items' = r.cache.items
           /\ list' = r.cache.list
           /\ last' = [op |-> "addToken", id |-> tok.token, ok |-> r.ok,
                       secret |-> tok.secret, evicted |-> r.evicted,
                       young |-> r.young, full |-> remCapacity <= 0,
                       found |-> tok.token \in DOMAIN items,
                       allYoung |-> AllYoung(Cache, minTimeInCache, now),
                       before |-> list, ids |-> DOMAIN items,
                       again |-> FALSE]
           /\ puts' = IF puts # <<0>> /\ tok.token \notin Range(puts)
                      THEN Append(puts, tok.token)
                      ELSE <<0>>
           /\ UNCHANGED <<minTimeInCache, now, capacity>>
           /\ UNCHANGED conVars

\* one call of addToken, with any token
AddToken == Put(Tokens)

\* one call of getToken
GetToken ==
    \E id \in Ids :
        \E r \in {getToken(Cache, id, now)} :
           /\ remCapacity' = r.cache.remCapacity
           /\ items' = r.cache.items
           /\ list' = r.cache.list
           /\ last' = [op |-> "getToken", id |-> id, ok |-> r.ok,
                       secret |-> r.tok.secret, evicted |-> 0, young |-> 0,
                       full |-> remCapacity <= 0,
                       found |-> id \in DOMAIN items,
                       allYoung |-> AllYoung(Cache, minTimeInCache, now),
                       before |-> list, ids |-> DOMAIN items,
                       again |-> /\ last.op = "getToken" /\ last.ok
                                 /\ last.id = id]
           /\ puts' = <<0>>
           /\ UNCHANGED <<minTimeInCache, now, capacity>>
           /\ UNCHANGED conVars

Next == Tick \/ AddToken \/ GetToken

Spec == Init /\ [][Next]_vars

---------------------------------------------------------------------------
(* The insertion loop of the tests (TestCapacity, TestMinAge): a cache of   *)
(* capacity 1 .. 4 and tokens "1", "2", ... put in that order, each once,  *)
(* while time passes or not between two puts.                              *)

InitLoop ==
    /\ capacity \in 1..TestCapacity
    /\ minTimeInCache \in Retentions
    /\ remCapacity = newTokenCache(capacity).remCapacity
    /\ items = newTokenCache(capacity).items
    /\ list = newTokenCache(capacity).list
    /\ now = 0
    /\ last = NoCall
    /\ puts = <<>>
    /\ NoThreads

\* cache.addToken(token{fmt.Sprint(i), fmt.Sprint(i)}) of the loop
LoopPut ==
    /\ Len(puts) < TestInserts
    /\ Put({Token(Len(puts) + 1, Len(puts) + 1)})

NextLoop == Tick \/ LoopPut

SpecLoop == InitLoop /\ [][NextLoop]_vars

---------------------------------------------------------------------------
(* A cache that holds more than one batch of trimCache: capacity 51 and    *)
(* tokens "1", "2", ... put in that order, each once, while time passes or *)
(* not and, once a batch is in, the first token is looked up or not        *)
(* between two puts.                                                       *)

InitBatch ==
    /\ capacity = TrimBatch + 1
    /\ minTimeInCache \in Retentions
    /\ remCapacity = newTokenCache(capacity).remCapacity
    /\ items = newTokenCache(capacity).items
    /\ list = newTokenCache(capacity).list
    /\ now = 0
    /\ last = NoCall
    /\ puts = <<>>
    /\ NoThreads

\* the next put of the loop, up to two more than the cache holds
BatchPut ==
    /\ Len(puts) < TrimBatch + 3
    /\ Put({Token(Len(puts) + 1, Len(puts) + 1)})

\* getToken of the first token, between two puts, once the cache holds a
\* whole batch
BatchGet ==
    /\ last.op # "getToken"
    /\ Len(list) >= TrimBatch
    /\ \E r \in {getToken(Cache, 1, now)} :
           /\ remCapacity' = r.cache.remCapacity
           /\ items' = r.cache.items
           /\ list' = r.cache.list
           /\ last' = [NoCall EXCEPT !.op = "getToken", !.id = 1,
                                     !.ok = r.ok, !.secret = r.tok.secret,
                                     !.before = list, !.ids = DOMAIN items]
           /\ UNCHANGED <<minTimeInCache, now, capacity, puts>>
           /\ UNCHANGED conVars

NextBatch == Tick \/ BatchPut \/ BatchGet

SpecBatch == InitBatch /\ [][NextBatch]_vars

---------------------------------------------------------------------------
(* The claims about the cache, calls executed one at a time.               *)

\* the n identifiers put last, the last one first
MostRecent(n) == [i \in 1..n |-> puts[Len(puts) + 1 - i]]

\* C1: after any sequence of addToken and getToken calls on a cache created
\* with capacity C >= 1, size() is at most C.
C1_SizeAtMostCapacity ==
    capacity >= 1 => size(Cache) <= capacity

\* a put on a full cache of capacity 2 or more has evicted and inserted
C1_Witness ==
    /\ capacity >= 2
    /\ last.op = "addToken" /\ last.full /\ last.evicted >= 1
    /\ size(Cache) = capacity

\* C2: with a minimum retention longer than the whole run, inserting
\* n >= C distinct tokens leaves size() = C: every insertion into the full
\* cache succeeds and evicts exactly one entry, the least recently used one
\* (so the cache holds the C tokens inserted last, in order).
C2_LongRetentionEvictsOne ==
    (minTimeInCache > MaxClock /\ Len(puts) >= capacity) =>
        /\ size(Cache) = capacity
        /\ last.op = "addToken" /\ last.ok
        /\ last.full => last.evicted = 1
        /\ list = MostRecent(capacity)

\* TestCapacity: capacity 4, retention 1000 s, ten tokens inserted
C2_Witness ==
    /\ capacity = TestCapacity /\ minTimeInCache = LongRetention
    /\ Len(puts) = TestInserts
    /\ last.full /\ last.evicted = 1
    /\ size(Cache) = TestCapacity

\* C3, as claimed: with minimum retention 0, inserting C + k distinct
\* tokens (k >= 1) leaves exactly C entries, the C most recently inserted.
C3_ZeroRetentionKeepsCapacity ==
    (minTimeInCache = 0 /\ Len(puts) > capacity) =>
        /\ size(Cache) = capacity
        /\ list = MostRecent(capacity)

\* C3, amended: with minimum retention 0 (and C <= 50), inserting C + k
\* distinct tokens leaves ((C + k - 1) mod C) + 1 entries, the most recently
\* inserted ones: each insertion into the full cache empties it first.
C3_ZeroRetentionKeepsRemainder ==
    (minTimeInCache = 0 /\ Len(puts) > capacity) =>
        /\ size(Cache) = ((Len(puts) - 1) % capacity) + 1
        /\ list = MostRecent(size(Cache))

\* capacity 4, retention 0, six tokens inserted: two are left
C3_Witness ==
    /\ capacity = TestCapacity /\ minTimeInCache = 0
    /\ Len(puts) = TestCapacity + 2
    /\ size(Cache) = 2

\* C4: capacity 4, retention 0, 5 distinct tokens inserted leave size() = 1;
\* in general, with retention 0, the insertion of a new token into a full
\* cache evicts every entry, and the new token alone remains.
C4_ZeroRetentionEmptiesFullCache ==
    /\ (capacity = TestCapacity /\ minTimeInCache = 0
            /\ Len(puts) = TestCapacity + 1)
        => size(Cache) = 1
    /\ (minTimeInCache = 0 /\ last.op = "addToken" /\ last.full
            /\ ~last.found)
        => /\ last.ok
           /\ last.evicted = capacity
           /\ list = <<last.id>>
           /\ size(Cache) = 1

\* TestMinAge, shortCache: the fifth token has been put into the full cache
C4_Witness ==
    /\ capacity = TestCapacity /\ minTimeInCache = 0
    /\ Len(puts) = TestCapacity + 1
    /\ last.op = "addToken" /\ last.full /\ last.evicted = TestCapacity
    /\ list = <<TestCapacity + 1>>

\* C5, as claimed: capacity 4, retention 1000 s, 5 distinct tokens inserted
\* within the retention window leave a final size of 1.
C5_LongRetentionLeavesOne ==
    (capacity = TestCapacity /\ minTimeInCache = LongRetention
        /\ Len(puts) = TestCapacity + 1)
    => size(Cache) = 1

\* C5, amended: capacity 4, retention 1000 s, 5 distinct tokens inserted
\* within the retention window leave a final size of 4: the fifth insertion
\* evicts one entry, the first token, and nothing else.
C5_LongRetentionLeavesFour ==
    (capacity = TestCapacity /\ minTimeInCache = LongRetention
        /\ Len(puts) = TestCapacity + 1)
    => /\ size(Cache) = TestCapacity
       /\ DOMAIN items = 2..(TestCapacity + 1)

\* TestMinAge, longCache: the fifth token has been put into the full cache
C5_Witness ==
    /\ capacity = TestCapacity /\ minTimeInCache = LongRetention
    /\ Len(puts) = TestCapacity + 1
    /\ last.op = "addToken" /\ last.full /\ last.ok
    /\ now - items[1 + 1].timeIn < minTimeInCache

\* C6: in every put on a full cache, no entry younger than the minimum
\* retention is removed to make room.
C6_NoYoungEntryEvicted ==
    (last.op = "addToken" /\ last.full) => last.young = 0

\* C7: when the cache is full, the minimum retention is positive and every
\* entry is younger than it, a put of a new identifier is refused: addToken
\* returns false and the new token is not in the cache afterwards.
C7_FullYoungCacheRefusesPut ==
    (last.op = "addToken" /\ last.full /\ ~last.found
        /\ minTimeInCache > 0 /\ last.allYoung)
    => /\ ~last.ok
       /\ last.id \notin DOMAIN items

\* C8: after inserting distinct tokens t0 .. tn-1 in that order into a cache
\* with room for all of them, head is tn-1 and tail is t0 (the list holds
\* them newest first); after a successful getToken(x), head is x and the
\* relative order of all other entries is unchanged.
C8_RecencyOrder ==
    /\ (puts # <<0>> /\ Len(puts) >= 1 /\ Len(puts) <= capacity)
        => /\ Front(Cache) = puts[Len(puts)]
           /\ Back(Cache) = puts[1]
           /\ list = MostRecent(Len(puts))
    /\ (last.op = "getToken" /\ last.ok)
        => /\ Front(Cache) = last.id
           /\ list = <<last.id>> \o Without(last.before, last.id)

\* getToken of the middle one of three entries has moved it to the head
C8_Witness ==
    /\ last.op = "getToken" /\ last.ok
    /\ Len(last.before) = 3 /\ last.before[2] = last.id
    /\ list = <<last.before[2], last.before[1], last.before[3]>>

\* C9: getToken never removes or adds an entry: the identifiers in the cache
\* and size() are the same before and after the call, so a cached
\* identifier can be looked up again and again, and each lookup returns its
\* token/secret pair.
C9_GetTokenKeepsEntries ==
    last.op = "getToken" =>
        /\ DOMAIN items = last.ids
        /\ size(Cache) = Cardinality(last.ids)
        /\ last.ok = last.found
        /\ last.again => last.ok
        /\ last.ok => /\ last.id \in DOMAIN items
                      /\ items[last.id].tok = Token(last.id, last.secret)

\* the same cached identifier has been looked up twice in a row
C9_Witness ==
    /\ last.op = "getToken" /\ last.ok /\ last.again
    /\ size(Cache) >= 2

\* C10: a put whose identifier is already in the cache replaces the payload
\* and moves the entry to the head without evicting anything: the
\* identifiers in the cache and size() are unchanged, also when the cache
\* is full.
C10_PutExistingEvictsNothing ==
    (last.op = "addToken" /\ last.found) =>
        /\ last.ok
        /\ DOMAIN items = last.ids
        /\ size(Cache) = Cardinality(last.ids)
        /\ Front(Cache) = last.id
        /\ items[last.id].tok = Token(last.id, last.secret)

---------------------------------------------------------------------------
(* The cache under concurrent callers.  A thread is an HTTP handler (or a  *)
(* benchmark goroutine) that calls addToken, getToken or size, or          *)
(* GetRedirectURL / ProcessResponse, which call them around their network  *)
(* requests.  One action is one step between two points where another      *)
(* thread can run: a Lock, a critical section up to its Unlock, an          *)
(* unlocked statement, a network answer.                                   *)

\* identifiers and tokens of the concurrent callers
ConcIds == {1, 2}
ConcTokens == {tk \in Tokens : tk.token \in ConcIds}

\* capacities of the shared cache (tokenCtx, the benchmark's cache)
ConcCapacities == {1, 2}

\* item == nil
NoItem == 0

\* a thread that has made no call yet
NoLocals == [op |-> "none", inner |-> "none", id |-> Empty, secret |-> Empty,
             verifier |-> Empty, item |-> NoItem, out |-> Token(Empty, Empty)]

\* the cache of SpecConc as one value
ConcCache == [remCapacity |-> remCapacity, refs |-> refs, elems |-> elems,
              heap |-> heap]

\* places where a thread waits for the mutex, and the place after Lock
LockPlaces == {"add1", "add6", "get1", "pro1"}
AfterLock(place) ==
    CASE place = "add1" -> "add2"
      [] place = "add6" -> "add7"
      [] place = "get1" -> "get2"
      [] place = "pro1" -> "pro2"

\* places inside a critical section (between Lock and Unlock)
CriticalPlaces == {"add2", "add7", "get2", "pro2"}

\* places where a network request of a leg is in flight
NetworkPlaces == {"req", "acc", "usr"}

\* the loop of trimCache on the shared cache, from iteration i on
RECURSIVE trimElems(_, _, _, _, _)
trimElems(c, minTime, t, i, success) ==
    IF i >= TrimBatch \/ c.elems = <<>>
    THEN [cache |-> c, success |-> success]
    ELSE LET tail == c.elems[Len(c.elems)]
             item == c.heap[tail]
             c2 == [c EXCEPT !.remCapacity = @ + 1,
                             !.refs = Delete(@, item.tok.token),
                             !.elems = SubSeq(@, 1, Len(@) - 1)]
         IN IF tooYoung(t - item.timeIn, minTime)
            THEN [cache |-> c2, success |-> TRUE]
            ELSE trimElems(c2, minTime, t, i + 1, TRUE)

\* the items some pointer still leads to, and the heap once the garbage
\* collector has freed the others
Live(r, e, l) ==
    (Range(e) \cup {r[k] : k \in DOMAIN r} \cup {l[t].item : t \in Threads})
        \ {NoItem}
Collect(h, r, e, l) ==
    [p \in DOMAIN h \cap Live(r, e, l) |-> h[p]]

\* the address of a new item: the lowest one that is free
NewItem(h) ==
    CHOOSE p \in 1..(Cardinality(DOMAIN h) + 1) :
        p \notin DOMAIN h /\ \A q \in 1..(p - 1) : q \in DOMAIN h

\* the thread dereferences a nil *http.Response: it panics, its stack is
\* unwound and it runs no further
Panic(t) ==
    /\ pc' = [pc EXCEPT ![t] = "panic"]
    /\ loc' = [loc EXCEPT ![t] = NoLocals]

\* the thread's call returns to its caller and its frame is gone
Return(t) ==
    /\ pc' = [pc EXCEPT ![t] = "idle"]
    /\ loc' = [loc EXCEPT ![t] = NoLocals]

InitConc ==
    /\ capacity \in ConcCapacities
    /\ minTimeInCache \in Retentions
    /\ remCapacity = capacity
    /\ items = <<>>
    /\ list = <<>>
    /\ now = 0
    /\ last = NoCall
    /\ puts = <<>>
    /\ mutex = 0
    /\ heap = <<>>
    /\ refs = <<>>
    /\ elems = <<>>
    /\ pc = [t \in Threads |-> "idle"]
    /\ loc = [t \in Threads |-> NoLocals]
    /\ calls = 0

\* a thread begins cache.addToken(tok), cache.getToken(id) or cache.size()
CallCache(t) ==
    /\ pc[t] = "idle" /\ calls < MaxCalls
    /\ calls' = calls + 1
    /\ \/ \E tk \in ConcTokens :
            /\ loc' = [loc EXCEPT ![t] = [NoLocals EXCEPT !.op = "addToken",
                          !.inner = "addToken",
                          !.id = tk.token, !.secret = tk.secret]]
            /\ pc' = [pc EXCEPT ![t] = "add1"]
       \/ \E id \in ConcIds :
            /\ loc' = [loc EXCEPT ![t] = [NoLocals EXCEPT !.op = "getToken",
                          !.inner = "getToken", !.id = id]]
            /\ pc' = [pc EXCEPT ![t] = "get1"]
       \/ /\ loc' = [loc EXCEPT ![t] = [NoLocals EXCEPT !.op = "size",
                          !.inner = "size"]]
          /\ pc' = [pc EXCEPT ![t] = "size1"]
    /\ UNCHANGED <<remCapacity, minTimeInCache, now, capacity, seqVars,
                   mutex, heap, refs, elems>>

\* c.mutex.Lock(), at lines 40, 52, 71 and 81
Lock(t) ==
    /\ pc[t] \in LockPlaces
    /\ mutex = 0
    /\ mutex' = t
    /\ pc' = [pc EXCEPT ![t] = AfterLock(pc[t])]
    /\ UNCHANGED <<remCapacity, minTimeInCache, now, capacity, seqVars,
                   heap, refs, elems, loc, calls>>

\* an addToken whose "cache full" return leaves the mutex locked
AddCheckHeld(t) ==
    /\ pc[t] = "add2"
    /\ \E tr \in {IF needsTrim(ConcCache)
                  THEN trimElems(ConcCache, minTimeInCache, now, 0, FALSE)
                  ELSE [cache |-> ConcCache, success |-> TRUE]} :
          /\ remCapacity' = tr.cache.remCapacity
          /\ refs' = tr.cache.refs
          /\ elems' = tr.cache.elems
          /\ mutex' = IF tr.success THEN 0 ELSE t
          /\ IF ~tr.success
             THEN Return(t)
             ELSE IF loc[t].id \in DOMAIN tr.cache.refs
             THEN /\ loc' = [loc EXCEPT ![t].item = tr.cache.refs[loc[t].id]]
                  /\ pc' = [pc EXCEPT ![t] = "add3"]
             ELSE /\ pc' = [pc EXCEPT ![t] = "add5"]
                  /\ loc' = loc
    /\ heap' = Collect(heap, refs', elems', loc')
    /\ UNCHANGED <<minTimeInCache, now, capacity, seqVars, calls>>

\* addToken, lines 53-61: trim when there is no capacity left (and return
\* false when nothing could be trimmed), look the identifier up, Unlock
AddCheck(t) ==
    /\ pc[t] = "add2"
    /\ \E tr \in {IF needsTrim(ConcCache)
                  THEN trimElems(ConcCache, minTimeInCache, now, 0, FALSE)
                  ELSE [cache |-> ConcCache, success |-> TRUE]} :
          /\ remCapacity' = tr.cache.remCapacity
          /\ refs' = tr.cache.refs
          /\ elems' = tr.cache.elems
          /\ IF ~tr.success
             THEN Return(t)
             ELSE IF loc[t].id \in DOMAIN tr.cache.refs
             THEN /\ loc' = [loc EXCEPT ![t].item = tr.cache.refs[loc[t].id]]
                  /\ pc' = [pc EXCEPT ![t] = "add3"]
             ELSE /\ pc' = [pc EXCEPT ![t] = "add5"]
                  /\ loc' = loc
    /\ heap' = Collect(heap, refs', elems', loc')
    /\ mutex' = 0
    /\ UNCHANGED <<minTimeInCache, now, capacity, seqVars, calls>>

\* addToken, line 64: item.tok = oauthToken
AddReplace(t) ==
    /\ pc[t] = "add3"
    /\ heap' = [heap EXCEPT ![loc[t].item].tok =
                    Token(loc[t].id, loc[t].secret)]
    /\ pc' = [pc EXCEPT ![t] = "pro1"]
    /\ UNCHANGED <<remCapacity, minTimeInCache, now, capacity, seqVars,
                   mutex, refs, elems, loc, calls>>

\* addToken, lines 67-70: a new item, stamped with time.Now()
AddNewItem(t) ==
    /\ pc[t] = "add5"
    /\ \E p \in {NewItem(heap)} :
          /\ heap' = Store(heap, p, [tok |-> Token(loc[t].id, loc[t].secret),
                                     timeIn |-> now])
          /\ loc' = [loc EXCEPT ![t].item = p]
    /\ pc' = [pc EXCEPT ![t] = "add6"]
    /\ UNCHANGED <<remCapacity, minTimeInCache, now, capacity, seqVars,
                   mutex, refs, elems, calls>>

\* addToken, lines 72-77: PushFront, store in the map, count, Unlock
AddInsert(t) ==
    /\ pc[t] = "add7"
    /\ elems' = <<loc[t].item>> \o elems
    /\ refs' = Store(refs, loc[t].id, loc[t].item)
    /\ remCapacity' = remCapacity - 1
    /\ mutex' = 0
    /\ Return(t)
    /\ UNCHANGED <<minTimeInCache, now, capacity, seqVars, heap, calls>>

\* getToken, lines 41-46: look the identifier up, Unlock, and return the
\* error when it is not found (ProcessResponse then returns its own error)
GetLookup(t) ==
    /\ pc[t] = "get2"
    /\ IF loc[t].id \in DOMAIN refs
       THEN /\ loc' = [loc EXCEPT ![t].item = refs[loc[t].id]]
            /\ pc' = [pc EXCEPT ![t] = "pro1"]
       ELSE Return(t)
    /\ mutex' = 0
    /\ UNCHANGED <<remCapacity, minTimeInCache, now, capacity, seqVars,
                   heap, refs, elems, calls>>

\* promote, lines 82-84: stamp the item, MoveToFront (which leaves the list
\* alone when the element is no longer in it), Unlock; addToken then returns
\* true, getToken goes on to return item.tok
Promote(t) ==
    /\ pc[t] = "pro2"
    /\ elems' = IF loc[t].item \in Range(elems)
                THEN <<loc[t].item>> \o Without(elems, loc[t].item)
                ELSE elems
    /\ mutex' = 0
    /\ IF loc[t].inner = "addToken"
       THEN Return(t)
       ELSE /\ pc' = [pc EXCEPT ![t] = "get3"]
            /\ loc' = loc
    /\ heap' = Collect([heap EXCEPT ![loc[t].item].timeIn = now],
                       refs, elems', loc')
    /\ UNCHANGED <<remCapacity, minTimeInCache, now, capacity, seqVars,
                   refs, calls>>

\* a getToken that reads item.tok under the mutex and leaves the Unlock to
\* its caller, which ProcessResponse only reaches after its requests
GetReturnLocked(t) ==
    /\ pc[t] = "get3"
    /\ mutex = 0
    /\ IF loc[t].op = "ProcessResponse"
       THEN /\ pc' = [pc EXCEPT ![t] = "acc"]
            /\ loc' = [loc EXCEPT ![t].out = heap[loc[t].item].tok]
            /\ mutex' = t
       ELSE /\ Return(t)
            /\ mutex' = 0
    /\ heap' = Collect(heap, refs, elems, loc')
    /\ UNCHANGED <<remCapacity, minTimeInCache, now, capacity, seqVars,
                   refs, elems, calls>>

\* getToken, line 48: return item.tok, nil; ProcessResponse goes on to the
\* access-token exchange
GetReturn(t) ==
    /\ pc[t] = "get3"
    /\ IF loc[t].op = "ProcessResponse"
       THEN /\ pc' = [pc EXCEPT ![t] = "acc"]
            /\ loc' = [loc EXCEPT ![t].out = heap[loc[t].item].tok]
       ELSE Return(t)
    /\ heap' = Collect(heap, refs, elems, loc')
    /\ UNCHANGED <<remCapacity, minTimeInCache, now, capacity, seqVars,
                   mutex, refs, elems, calls>>

\* size, line 36: return len(c.items)
Size(t) ==
    /\ pc[t] = "size1"
    /\ Return(t)
    /\ UNCHANGED <<remCapacity, minTimeInCache, now, capacity, seqVars,
                   mutex, heap, refs, elems, calls>>

\* what the provider's endpoint does with a request: it answers, the
\* client gives up with an error and a response (the redirect limit, a body
\* that cannot be read), or the transport fails and there is no response
Answers == {"ok", "err", "none"}

\* request.FormValue("oauth_token") and request.FormValue("oauth_verifier")
FormTokens == ConcIds \cup {Empty}
FormVerifiers == {1, Empty}

\* a thread begins provider.GetRedirectURL() or
\* provider.ProcessResponse(request), lines 121-122 and 134-138
CallFlow(t) ==
    /\ pc[t] = "idle" /\ calls < MaxCalls
    /\ calls' = calls + 1
    /\ \/ /\ loc' = [loc EXCEPT ![t] = [NoLocals EXCEPT
                          !.op = "GetRedirectURL", !.inner = "addToken"]]
          /\ pc' = [pc EXCEPT ![t] = "req"]
       \/ \E id \in FormTokens, v \in FormVerifiers :
            \E l \in {[NoLocals EXCEPT !.op = "ProcessResponse",
                          !.inner = "getToken", !.id = id, !.verifier = v]} :
               IF id # Empty /\ v # Empty
               THEN /\ loc' = [loc EXCEPT ![t] = l]
                    /\ pc' = [pc EXCEPT ![t] = "get1"]
               ELSE Return(t)
    /\ UNCHANGED <<remCapacity, minTimeInCache, now, capacity, seqVars,
                   mutex, heap, refs, elems>>

\* the request-token request ends (fetchOAuthRequestToken, lines 165-180):
\* with a token GetRedirectURL goes on to tokenCtx.addToken, line 125
RequestTokenAnswer(t) ==
    /\ pc[t] = "req"
    /\ \E a \in Answers :
          CASE a = "ok" ->
                 \E tk \in ConcTokens :
                    /\ loc' = [loc EXCEPT ![t].id = tk.token,
                                          ![t].secret = tk.secret]
                    /\ pc' = [pc EXCEPT ![t] = "add1"]
            [] a = "err" -> Return(t)
            [] a = "none" -> Panic(t)
    /\ UNCHANGED <<remCapacity, minTimeInCache, now, capacity, seqVars,
                   mutex, heap, refs, elems, calls>>

\* the access-token request ends (fetchOAuthAccessToken, lines 195-210):
\* with an access token ProcessResponse goes on to fetchUserInfo, line 145
AccessTokenAnswer(t) ==
    /\ pc[t] = "acc"
    /\ \E a \in Answers :
          CASE a = "ok" -> /\ pc' = [pc EXCEPT ![t] = "usr"]
                           /\ loc' = loc
            [] a = "err" -> Return(t)
            [] a = "none" -> Panic(t)
    /\ UNCHANGED <<remCapacity, minTimeInCache, now, capacity, seqVars,
                   mutex, heap, refs, elems, calls>>

\* the user-info request ends (fetchUserInfo, lines 227-250) and
\* ProcessResponse returns, line 146
UserInfoAnswer(t) ==
    /\ pc[t] = "usr"
    /\ \E a \in Answers :
          CASE a = "ok" -> Return(t)
            [] a = "err" -> Return(t)
            [] a = "none" -> Panic(t)
    /\ UNCHANGED <<remCapacity, minTimeInCache, now, capacity, seqVars,
                   mutex, heap, refs, elems, calls>>

\* time passes while the threads run
TickConc ==
    /\ now < MaxClock
    /\ now' = now + 1
    /\ UNCHANGED <<remCapacity, minTimeInCache, capacity, seqVars, conVars>>

NextConc ==
    \/ TickConc
    \/ \E t \in Threads :
          \/ CallCache(t)
          \/ CallFlow(t)
          \/ Lock(t)
          \/ AddCheck(t)
          \/ AddReplace(t)
          \/ AddNewItem(t)
          \/ AddInsert(t)
          \/ GetLookup(t)
          \/ Promote(t)
          \/ GetReturn(t)
          \/ Size(t)
          \/ RequestTokenAnswer(t)
          \/ AccessTokenAnswer(t)
          \/ UserInfoAnswer(t)

SpecConc == InitConc /\ [][NextConc]_vars

---------------------------------------------------------------------------
(* Concurrent addToken and getToken calls under a fair scheduler.          *)

\* capacities of the cache whose callers are scheduled fairly: with no
\* capacity at all every addToken finds nothing to trim
FairCapacities == {0, 1}

\* the calls run within one tick of the clock, so that every entry has age
\* zero: with retention 0 trimCache evicts whatever it visits, with
\* retention 1 it stops at the first entry
FairRetentions == {0, 1}

InitFair ==
    /\ capacity \in FairCapacities
    /\ minTimeInCache \in FairRetentions
    /\ remCapacity = capacity
    /\ items = <<>>
    /\ list = <<>>
    /\ now = 0
    /\ last = NoCall
    /\ puts = <<>>
    /\ mutex = 0
    /\ heap = <<>>
    /\ refs = <<>>
    /\ elems = <<>>
    /\ pc = [t \in Threads |-> "idle"]
    /\ loc = [t \in Threads |-> NoLocals]
    /\ calls = 0

\* a goroutine begins cache.addToken(tok) or cache.getToken(id); `last'
\* keeps which of the two was begun last
CallFair(t) ==
    /\ pc[t] = "idle" /\ calls < MaxCalls
    /\ calls' = calls + 1
    /\ \/ \E tk \in ConcTokens :
            /\ loc' = [loc EXCEPT ![t] = [NoLocals EXCEPT !.op = "addToken",
                          !.inner = "addToken",
                          !.id = tk.token, !.secret = tk.secret]]
            /\ pc' = [pc EXCEPT ![t] = "add1"]
            /\ last' = [NoCall EXCEPT !.op = "addToken"]
       \/ \E id \in ConcIds :
            /\ loc' = [loc EXCEPT ![t] = [NoLocals EXCEPT !.op = "getToken",
                          !.inner = "getToken", !.id = id]]
            /\ pc' = [pc EXCEPT ![t] = "get1"]
            /\ last' = [NoCall EXCEPT !.op = "getToken"]
    /\ UNCHANGED <<remCapacity, minTimeInCache, now, capacity, items, list,
                   puts, mutex, heap, refs, elems>>

\* the steps of a running call that do not wait for the mutex
Step(t) ==
    \/ AddCheck(t)
    \/ AddReplace(t)
    \/ AddNewItem(t)
    \/ AddInsert(t)
    \/ GetLookup(t)
    \/ Promote(t)
    \/ GetReturn(t)

NextFair ==
    \E t \in Threads :
          \/ CallFair(t)
          \/ Lock(t)
          \/ AddCheck(t)
          \/ AddReplace(t)
          \/ AddNewItem(t)
          \/ AddInsert(t)
          \/ GetLookup(t)
          \/ Promote(t)
          \/ GetReturn(t)

\* the scheduler runs every goroutine that can run, and sync.Mutex hands
\* the lock to a goroutine that keeps waiting for it (starvation mode)
SpecFair ==
    /\ InitFair
    /\ [][NextFair]_vars
    /\ \A t \in Threads : WF_vars(Step(t)) /\ SF_vars(Lock(t))

---------------------------------------------------------------------------
(* The claims about the cache under concurrent callers.                    *)

\* places whose step reads or writes the map, the list, remCapacity, or an
\* entry's payload or timestamp
SharedPlaces == {"add2", "add3", "add7", "get2", "pro2", "get3", "size1"}

\* C11: however concurrent addToken calls interleave, the cache never holds
\* more entries than its capacity.
C11_ConcSizeAtMostCapacity ==
    Cardinality(DOMAIN refs) <= capacity

\* C12: every step of addToken, getToken, promote, trimCache and size that
\* reads or writes the cache's shared state is taken by a thread that holds
\* the mutex.
C12_SharedStateUnderMutex ==
    [][\A t \in Threads :
          (pc[t] \in SharedPlaces /\ pc'[t] # pc[t]) => mutex = t]_vars

\* C13: however addToken and getToken calls interleave, the list and the map
\* stay in one-to-one correspondence: every list element is the entry the
\* map holds for its identifier, and every map entry is in the list once.
C13_ListMatchesMap ==
    /\ Len(elems) = Cardinality(DOMAIN refs)
    /\ Range(elems) = {refs[k] : k \in DOMAIN refs}
    /\ \A k \in DOMAIN refs : heap[refs[k]].tok.token = k

\* C14: no thread holds the mutex while its request-token, access-token or
\* user-info request is in flight; whoever holds the mutex is inside a
\* critical section of the cache, whose next step releases it, so a thread
\* waiting on the network keeps no other thread from finishing its addToken
\* or getToken.
C14_NoRequestUnderMutex ==
    /\ \A t \in Threads : pc[t] \in NetworkPlaces => mutex # t
    /\ mutex # 0 => pc[mutex] \in CriticalPlaces

\* one thread's request is in flight while the other is inside a critical
\* section of the cache
C14_Witness ==
    \E t, u \in Threads :
        /\ t # u
        /\ pc[t] \in NetworkPlaces
        /\ mutex = u
        /\ pc[u] \in CriticalPlaces

---------------------------------------------------------------------------
(* The OAuth 1.0 flow of oauth1.go, one call at a time, on the package's    *)
(* token cache tokenCtx.                                                   *)

\* config.AuthTransmissionType: an int, Header (1) unless the
\* configuration sets it to another positive value
OAuth1HeaderTransmissionType == 1
OAuth1QueryParamTramssionType == 2
TransmissionTypes == {OAuth1HeaderTransmissionType,
                      OAuth1QueryParamTramssionType, 3}

\* config.RequestTokenVerb and config.UserInfoVerb: any non-empty string;
\* "PUT" is one that is neither "GET" nor "POST"
OAuthVerbGet == "GET"
OAuthVerbPost == "POST"
Verbs == {OAuthVerbGet, OAuthVerbPost, "PUT"}

\* a string is the sequence of its pieces, each a character or a run of
\* letters, digits, "-", "_" and "." ; strings.ToUpper piece by piece
UpperChar(ch) ==
    CASE ch = "t" -> "T"
      [] ch = "w" -> "W"
      [] ch = "get" -> "GET"
      [] ch = "post" -> "POST"
      [] OTHER -> ch
ToUpper(str) == [i \in DOMAIN str |-> UpperChar(str[i])]

\* the configurations a caller hands to NewOAuth1ServiceProvider: the
\* verbs may be left empty and the transmission type 0, and the other
\* fields are the caller's strings (ClientID stands for them here)
RawConfigs == [ProviderName : {<<"t", "w">>, <<"T", "w">>, <<"T", "W">>},
               ClientID : {<<>>, <<"id">>},
               AuthTransmissionType : {-1, 0} \cup TransmissionTypes,
               RequestTokenVerb : {""} \cup Verbs,
               UserInfoVerb : {""} \cup Verbs]

\* a constructor that sets the request-token verb to its default whatever
\* the caller supplied
NewProviderDefaultVerb(config) ==
    [config EXCEPT
        !.ProviderName = ToUpper(@),
        !.RequestTokenVerb = OAuthVerbPost,
        !.UserInfoVerb = IF @ = "" THEN OAuthVerbGet ELSE @,
        !.AuthTransmissionType =
            IF @ < 1 THEN OAuth1HeaderTransmissionType ELSE @]

\* func NewOAuth1ServiceProvider(config OAuth1ServiceProviderConfig): the
\* config of the provider it returns
NewOAuth1ServiceProvider(config) ==
    [config EXCEPT
        !.ProviderName = ToUpper(@),
        !.RequestTokenVerb = IF @ = "" THEN OAuthVerbPost ELSE @,
        !.UserInfoVerb = IF @ = "" THEN OAuthVerbGet ELSE @,
        !.AuthTransmissionType =
            IF @ < 1 THEN OAuth1HeaderTransmissionType ELSE @]

\* the configurations of a provider
Configs == {NewOAuth1ServiceProvider(config) : config \in RawConfigs}

\* the names of the form fields
oauthToken == "oauth_token"
oauthSecretToken == "oauth_token_secret"
oauthVerifier == "oauth_verifier"

\* a response body is a sequence of pieces separated by "&": a piece is
\* key=value, or text that does not decode (an invalid % escape)
MaxPieces == 2
BadPiece == [key |-> "%", value |-> Empty]
Pieces == {[key |-> oauthToken, value |-> 1],
           [key |-> oauthToken, value |-> 2],
           [key |-> oauthSecretToken, value |-> 1], BadPiece}
Bodies == UNION {[1..n -> Pieces] : n \in 0..MaxPieces}

\* the body of the user-info endpoint: a JSON object, or anything else
JsonBody == <<[key |-> "{", value |-> Empty]>>
UserBodies == {JsonBody, <<BadPiece>>}

\* the bodies of the access-token endpoint: empty, not decodable, or an
\* access token and its secret
AccessBodies == {<<>>, <<BadPiece>>,
                 <<[key |-> oauthToken, value |-> 1],
                   [key |-> oauthSecretToken, value |-> 2]>>}

\* what the HTTP client comes back with: a response whose body is read
\* ("ok"), an error together with a response ("err"), or a transport error
\* and no response ("none")
Reply(kind, body) == [kind |-> kind, body |-> body]
Replies(B) == {Reply("none", <<>>), Reply("err", <<>>)}
                  \cup {Reply("ok", b) : b \in B}

\* url.ParseQuery: every piece that decodes is appended to the values of its
\* key, and err is set when some piece does not decode
RECURSIVE ParseQuery(_)
ParseQuery(body) ==
    IF body = <<>> THEN [values |-> <<>>, err |-> FALSE]
    ELSE LET rest == ParseQuery(Tail(body))
             piece == Head(body)
         IN IF piece = BadPiece
            THEN [values |-> rest.values, err |-> TRUE]
            ELSE [values |-> Store(rest.values, piece.key,
                        <<piece.value>> \o
                        (IF piece.key \in DOMAIN rest.values
                         THEN rest.values[piece.key] ELSE <<>>)),
                  err |-> rest.err]

\* url.Values.Get: the first value of the key, "" when there is none
Get(values, key) ==
    IF key \in DOMAIN values THEN values[key][1] ELSE Empty

\* json.NewDecoder(...).Decode(&m): fails unless the body is a JSON object
Decode(body) == [err |-> body # JsonBody]

\* the outcome of a transmission step: the data and err it returns unless
\* it panics, the number of requests it sent, and whether the client came
\* back with a transport error and no response (lost)
Outcome(data, err, panic, sent, lost) ==
    [data |-> data, err |-> err, panic |-> panic, sent |-> sent,
     lost |-> lost]

\* getResponseByQuery: client.Get / client.PostForm by the verb (no request
\* for another verb), then defer resp.Body.Close(), which dereferences resp
getResponseByQuery(verb, reply) ==
    IF verb \notin {OAuthVerbGet, OAuthVerbPost}
    THEN Outcome(<<>>, FALSE, TRUE, 0, FALSE)
    ELSE IF reply.kind = "none" THEN Outcome(<<>>, TRUE, TRUE, 1, TRUE)
    ELSE IF reply.kind = "err" THEN Outcome(<<>>, TRUE, FALSE, 1, FALSE)
    ELSE Outcome(reply.body, FALSE, FALSE, 1, FALSE)

\* getResponseByHeader: client.Do(req), then defer resp.Body.Close()
getResponseByHeader(verb, reply) ==
    IF reply.kind = "none" THEN Outcome(<<>>, TRUE, TRUE, 1, TRUE)
    ELSE IF reply.kind = "err" THEN Outcome(<<>>, TRUE, FALSE, 1, FALSE)
    ELSE Outcome(reply.body, FALSE, FALSE, 1, FALSE)

\* switch provider.config.AuthTransmissionType: neither case leaves data
\* and err nil
transmit(type, verb, reply) ==
    CASE type = OAuth1HeaderTransmissionType ->
             getResponseByHeader(verb, reply)
      [] type = OAuth1QueryParamTramssionType ->
             getResponseByQuery(verb, reply)
      [] OTHER -> Outcome(<<>>, FALSE, FALSE, 0, FALSE)

\* the tail of fetchOAuthRequestToken and fetchOAuthAccessToken: the err of
\* url.ParseQuery is a variable of the inner if only, so a body that does
\* not parse falls through to return token{}, err with the outer err nil
tokenOf(r, parsed) ==
    IF ~r.err /\ ~parsed.err
    THEN [tok |-> Token(Get(parsed.values, oauthToken),
                        Get(parsed.values, oauthSecretToken)),
          err |-> FALSE, panic |-> r.panic, sent |-> r.sent, lost |-> r.lost]
    ELSE [tok |-> Token(Empty, Empty), err |-> r.err, panic |-> r.panic,
          sent |-> r.sent, lost |-> r.lost]
parseToken(r) == tokenOf(r, ParseQuery(r.data))

fetchOAuthRequestToken(cfg, reply) ==
    parseToken(transmit(cfg.AuthTransmissionType, cfg.RequestTokenVerb, reply))

\* the access-token request is sent with config.RequestTokenVerb too
fetchOAuthAccessToken(cfg, reply) ==
    parseToken(transmit(cfg.AuthTransmissionType, cfg.RequestTokenVerb, reply))

\* OAuthVersion1
OAuthVersion1 == "1.0"

\* UserData{}: UserID stands for the fields toUserData fills from the JSON
\* object, the others are the ones fetchUserInfo sets itself
NoUser == [UserID |-> Empty, OAuthProvider |-> <<>>, OAuthVersion |-> "",
           OAuthToken |-> Empty, OAuthTokenType |-> ""]

\* toUserData(m) and the assignments of fetchUserInfo, lines 239-244
userOf(cfg, accessToken) ==
    [UserID |-> 1, OAuthProvider |-> ToUpper(cfg.ProviderName),
     OAuthVersion |-> OAuthVersion1, OAuthToken |-> accessToken.token,
     OAuthTokenType |-> "Access Token"]

\* the return of fetchUserInfo after the transmission step came back with r
userInfo(cfg, accessToken, r) ==
    IF ~r.err /\ ~r.panic /\ ~Decode(r.data).err
    THEN [user |-> userOf(cfg, accessToken),
          err |-> FALSE, panic |-> FALSE, sent |-> r.sent, lost |-> r.lost]
    ELSE [user |-> NoUser, err |-> r.err \/ (~r.panic /\ Decode(r.data).err),
          panic |-> r.panic, sent |-> r.sent, lost |-> r.lost]

\* a fetchUserInfo that fills the user in before it looks at the error
fetchUserInfoEager(cfg, accessToken, reply) ==
    [userInfo(cfg, accessToken,
              transmit(cfg.AuthTransmissionType, cfg.UserInfoVerb, reply))
        EXCEPT !.user = userOf(cfg, accessToken)]

\* a fetchUserInfo that reports the access token's secret as the token
fetchUserInfoSecret(cfg, accessToken, reply) ==
    userInfo(cfg, Token(accessToken.secret, accessToken.token),
             transmit(cfg.AuthTransmissionType, cfg.UserInfoVerb, reply))

fetchUserInfo(cfg, accessToken, reply) ==
    userInfo(cfg, accessToken,
             transmit(cfg.AuthTransmissionType, cfg.UserInfoVerb, reply))

\* the redirect URL as the pieces fmt.Sprintf joins; "" is no piece at all
NoURL == <<>>
AuthURL == "AuthURL"
Sprintf3(a, b, c) == <<a, "?", b, "=", c>>

\* the response is there, but is not a form-encoded token and secret
Lacking(parsed) ==
    \/ parsed.err
    \/ Get(parsed.values, oauthToken) = Empty
    \/ Get(parsed.values, oauthSecretToken) = Empty
Malformed(reply) == reply.kind = "ok" /\ Lacking(ParseQuery(reply.body))

\* what fetchOAuthRequestToken can come back with, over the configurations
\* and the replies of the request-token endpoint; malformed: a request was
\* sent and its response is there but is not a token and secret
RequestTokenResults ==
    {[fetched |-> fetchOAuthRequestToken(cfg, reply),
      malformed |-> /\ fetchOAuthRequestToken(cfg, reply).sent > 0
                    /\ Malformed(reply)] :
        cfg \in Configs, reply \in Replies(Bodies)}

\* a GetRedirectURL that returns the URL without keeping the token
GetRedirectURLNoStore(c, minTime, f, t) ==
    [cache |-> c,
     url |-> IF f.panic \/ f.err THEN NoURL
             ELSE Sprintf3(AuthURL, oauthToken, f.tok.token),
     err |-> f.err, panic |-> f.panic, added |-> FALSE]

\* the result of GetRedirectURL once addToken has returned r
redirect(r, f) ==
    [cache |-> r.cache, url |-> Sprintf3(AuthURL, oauthToken, f.tok.token),
     err |-> FALSE, panic |-> FALSE, added |-> r.ok]

\* func (provider *OAuth1ServiceProvider) GetRedirectURL() (string, error),
\* f being what its call of fetchOAuthRequestToken comes back with; the
\* result of tokenCtx.addToken is dropped (added records it)
GetRedirectURL(c, minTime, f, t) ==
    IF f.panic \/ f.err
    THEN [cache |-> c, url |-> NoURL, err |-> f.err, panic |-> f.panic,
          added |-> FALSE]
    ELSE redirect(addToken(c, minTime, f.tok, t), f)

\* the errors of ProcessResponse: none, errors.New("...missing token or
\* verifier."), errors.New("...could not validate oauth token."), and the
\* error of a leg
NoError == "nil"
MissingError == "Invalid request: missing token or verifier."
InvalidError == "Invalid request: could not validate oauth token."
LegError == "leg"

\* the result of the two legs of ProcessResponse
Exchanged(user, err, panic, sent, lost, legs) ==
    [user |-> user, err |-> err, panic |-> panic, sent |-> sent,
     lost |-> lost, legs |-> legs]

\* the requests a leg has sent, by the name of the leg
Sent(leg, n) == [i \in 1..n |-> leg]

\* the result when the access-token leg came back with a and the
\* user-info leg with u
exchangeUser(a, u) ==
    Exchanged(u.user, IF u.err THEN LegError ELSE NoError, u.panic,
              a.sent + u.sent, u.lost,
              Sent("access-token", a.sent) \o Sent("user-info", u.sent))

\* ProcessResponse, lines 140-146: the access-token exchange, and the
\* user-info request when the exchange returned no error
exchangeLegs(cfg, a, reply2) ==
    IF a.panic THEN Exchanged(NoUser, NoError, TRUE, a.sent, a.lost,
                              Sent("access-token", a.sent))
    ELSE IF a.err THEN Exchanged(NoUser, LegError, FALSE, a.sent, a.lost,
                                 Sent("access-token", a.sent))
    ELSE exchangeUser(a, fetchUserInfo(cfg, a.tok, reply2))
exchange(cfg, reply1, reply2) ==
    exchangeLegs(cfg, fetchOAuthAccessToken(cfg, reply1), reply2)

\* what the access-token endpoint answers: nothing that the client returns
\* without error ("failed"), a response that does not parse or lacks the
\* token or the secret ("lacking"), or a token and its secret ("token")
answerOf(reply) ==
    IF reply.kind # "ok" THEN "failed"
    ELSE IF Malformed(reply) THEN "lacking"
    ELSE "token"

\* what the two legs can come back with, over the configurations and the
\* replies of the access-token and the user-info endpoint, each with the
\* provider's name, the token that the exchange returned and the answer of
\* the access-token endpoint
Exchanges ==
    {[legs |-> exchange(cfg, reply1, reply2),
      name |-> cfg.ProviderName,
      access |-> fetchOAuthAccessToken(cfg, reply1).tok.token,
      answer |-> answerOf(reply1)] :
        cfg \in Configs, reply1 \in Replies(AccessBodies),
        reply2 \in Replies(UserBodies)}

\* no leg was run
NoExchange == Exchanged(NoUser, NoError, FALSE, 0, FALSE, <<>>)

\* the result of ProcessResponse
Processed(c, x, err, looked) ==
    [cache |-> c, user |-> x.user, err |-> err, panic |-> x.panic,
     sent |-> x.sent, lost |-> x.lost, legs |-> x.legs, looked |-> looked]

\* a ProcessResponse that only asks for the token to be there
ProcessResponseNoVerifier(c, form, x, t) ==
    IF form.token # Empty
    THEN IF getToken(c, form.token, t).ok
         THEN Processed(getToken(c, form.token, t).cache, x, x.err, TRUE)
         ELSE Processed(c, NoExchange, InvalidError, TRUE)
    ELSE Processed(c, NoExchange, MissingError, FALSE)

\* a ProcessResponse that goes on with the token{} of a failed lookup
ProcessResponseAnyToken(c, form, x, t) ==
    IF form.token # Empty /\ form.verifier # Empty
    THEN Processed(getToken(c, form.token, t).cache, x, x.err, TRUE)
    ELSE Processed(c, NoExchange, MissingError, FALSE)

\* func (provider *OAuth1ServiceProvider) ProcessResponse(request)
\* (UserData, error): form is request.FormValue of the two parameters, x
\* what the two legs come back with when the call gets to them
ProcessResponse(c, form, x, t) ==
    IF form.token # Empty /\ form.verifier # Empty
    THEN IF getToken(c, form.token, t).ok
         THEN Processed(getToken(c, form.token, t).cache, x, x.err, TRUE)
         ELSE Processed(c, NoExchange, InvalidError, TRUE)
    ELSE Processed(c, NoExchange, MissingError, FALSE)

\* the capacity and the minimum time in cache of tokenCtx, scaled down
FlowCapacities == {1, 2}
FlowRetentions == {1, LongRetention}

\* the tokens a callback can name: issued ones, any other string, or none
FlowIds == {1, 2, Empty}

\* last in SpecFlow: the call (op), the token the request-token leg yielded
\* or the callback named (id, secret), the callback's verifier, what the
\* call returned (url, err, user) or that it panicked, the number of
\* requests sent and the legs they belong to in the order they were sent
\* (legs), the name of the provider and the access token its exchange
\* yields (name, access), what the access-token endpoint answered to the
\* exchange (answer), the consumer key of the provider called and of the
\* one whose GetRedirectURL cached the callback's token (client, issuer),
\* whether that token was exchanged before (used), whether a leg came back
\* with no response (lost),
\* whether the request-token response was there but did not parse or lacked
\* the token or the secret (malformed), whether the cache was searched
\* (looked), whether the callback's token was in the cache (cached), whether
\* addToken reported success (added), and whether the cache is as it was
\* before the call (same)
NoFlowCall == [op |-> "none", id |-> Empty, secret |-> Empty,
               verifier |-> Empty, url |-> NoURL, err |-> NoError,
               panic |-> FALSE, sent |-> 0, lost |-> FALSE,
               malformed |-> FALSE, looked |-> FALSE, cached |-> FALSE,
               added |-> TRUE, same |-> TRUE, user |-> NoUser,
               legs |-> <<>>, name |-> <<>>, access |-> Empty,
               answer |-> "none", client |-> <<>>,
               issuer |-> <<>>, used |-> FALSE]

InitFlow ==
    /\ capacity \in FlowCapacities
    /\ minTimeInCache \in FlowRetentions
    /\ remCapacity = newTokenCache(capacity).remCapacity
    /\ items = newTokenCache(capacity).items
    /\ list = newTokenCache(capacity).list
    /\ now = 0
    /\ last = NoFlowCall
    /\ puts = <<>>
    /\ NoThreads

\* one call of GetRedirectURL on some provider
CallGetRedirectURL ==
    \E q \in RequestTokenResults :
        \E r \in {GetRedirectURL(Cache, minTimeInCache, q.fetched, now)} :
           /\ remCapacity' = r.cache.remCapacity
           /\ items' = r.cache.items
           /\ list' = r.cache.list
           /\ last' = [NoFlowCall EXCEPT
                          !.op = "GetRedirectURL",
                          !.id = q.fetched.tok.token,
                          !.secret = q.fetched.tok.secret,
                          !.url = r.url,
                          !.err = IF r.err THEN LegError ELSE NoError,
                          !.panic = r.panic,
                          !.sent = q.fetched.sent,
                          !.lost = q.fetched.lost,
                          !.malformed = q.malformed,
                          !.added = r.added,
                          !.same = r.cache = Cache]
           /\ UNCHANGED <<minTimeInCache, now, capacity, puts>>
           /\ UNCHANGED conVars

\* one call of ProcessResponse on some provider with a callback request
CallProcessResponse ==
    \E id \in FlowIds, verifier \in FormVerifiers, x \in Exchanges :
        \E r \in {ProcessResponse(Cache, [token |-> id, verifier |-> verifier],
                                  x.legs, now)} :
           /\ remCapacity' = r.cache.remCapacity
           /\ items' = r.cache.items
           /\ list' = r.cache.list
           /\ last' = [NoFlowCall EXCEPT
                          !.op = "ProcessResponse",
                          !.id = id, !.verifier = verifier,
                          !.err = r.err, !.panic = r.panic,
                          !.sent = r.sent, !.lost = r.lost,
                          !.looked = r.looked,
                          !.cached = id \in DOMAIN items,
                          !.user = r.user, !.legs = r.legs,
                          !.name = x.name, !.access = x.access,
                          !.answer = IF "access-token" \in Range(r.legs)
                                     THEN x.answer ELSE "none",
                          !.same = r.cache = Cache]
           /\ UNCHANGED <<minTimeInCache, now, capacity, puts>>
           /\ UNCHANGED conVars

NextFlow == Tick \/ CallGetRedirectURL \/ CallProcessResponse

SpecFlow == InitFlow /\ [][NextFlow]_vars

---------------------------------------------------------------------------
(* Several providers of one process: every OAuth1ServiceProvider uses the  *)
(* package's one tokenCtx.                                                 *)

\* the provider instances of the process: header mode, GET, one for each
\* consumer key
Instances ==
    {cfg \in Configs :
        /\ cfg.AuthTransmissionType = OAuth1HeaderTransmissionType
        /\ cfg.RequestTokenVerb = OAuthVerbGet
        /\ cfg.UserInfoVerb = OAuthVerbGet}

\* what the request-token endpoint answers: a token and its secret, or an
\* error of the client
IssueReplies ==
    {Reply("err", <<>>)} \cup
    {Reply("ok", <<[key |-> oauthToken, value |-> id],
                   [key |-> oauthSecretToken, value |-> 1]>>) : id \in {1, 2}}

\* what the access-token and the user-info endpoint answer
AccessReplies ==
    {Reply("err", <<>>),
     Reply("ok", <<[key |-> oauthToken, value |-> 1],
                   [key |-> oauthSecretToken, value |-> 2]>>)}
UserReplies == {Reply("ok", JsonBody)}

\* puts in SpecShared: for every cached request token the consumer key of
\* the provider whose GetRedirectURL cached it last (issuer) and whether a
\* ProcessResponse has reached the access-token exchange with it since (used)
Issued(cfg) == [issuer |-> cfg.ClientID, used |-> FALSE]
Kept(p, c) == [id \in DOMAIN p \cap DOMAIN c.items |-> p[id]]

InitShared ==
    /\ capacity \in FlowCapacities
    /\ minTimeInCache \in FlowRetentions
    /\ remCapacity = newTokenCache(capacity).remCapacity
    /\ items = newTokenCache(capacity).items
    /\ list = newTokenCache(capacity).list
    /\ now = 0
    /\ last = NoFlowCall
    /\ puts = <<>>
    /\ NoThreads

\* GetRedirectURL of one of the providers
SharedGetRedirectURL ==
    \E cfg \in Instances, reply \in IssueReplies :
        \E f \in {fetchOAuthRequestToken(cfg, reply)} :
        \E r \in {GetRedirectURL(Cache, minTimeInCache, f, now)} :
           /\ remCapacity' = r.cache.remCapacity
           /\ items' = r.cache.items
           /\ list' = r.cache.list
           /\ puts' = Kept(IF ~r.err /\ ~r.panic /\ r.added
                           THEN Store(puts, f.tok.token,
                                      Issued(cfg))
                           ELSE puts, r.cache)
           /\ last' = [NoFlowCall EXCEPT
                          !.op = "GetRedirectURL",
                          !.id = f.tok.token, !.secret = f.tok.secret,
                          !.url = r.url,
                          !.err = IF r.err THEN LegError ELSE NoError,
                          !.sent = f.sent, !.added = r.added,
                          !.name = cfg.ProviderName,
                          !.client = cfg.ClientID]
           /\ UNCHANGED <<minTimeInCache, now, capacity>>
           /\ UNCHANGED conVars

\* ProcessResponse of one of the providers with a callback request
SharedProcessResponse ==
    \E cfg \in Instances, id \in FlowIds, verifier \in FormVerifiers,
       reply1 \in AccessReplies, reply2 \in UserReplies :
        \E r \in {ProcessResponse(Cache, [token |-> id, verifier |-> verifier],
                                  exchange(cfg, reply1, reply2), now)} :
           /\ remCapacity' = r.cache.remCapacity
           /\ items' = r.cache.items
           /\ list' = r.cache.list
           /\ puts' = Kept(IF "access-token" \in Range(r.legs)
                           THEN [puts EXCEPT ![id].used = TRUE]
                           ELSE puts, r.cache)
           /\ last' = [NoFlowCall EXCEPT
                          !.op = "ProcessResponse",
                          !.id = id, !.verifier = verifier,
                          !.err = r.err, !.sent = r.sent,
                          !.looked = r.looked,
                          !.cached = id \in DOMAIN items,
                          !.user = r.user, !.legs = r.legs,
                          !.name = cfg.ProviderName,
                          !.client = cfg.ClientID,
                          !.issuer = IF id \in DOMAIN puts
                                     THEN puts[id].issuer ELSE <<>>,
                          !.used = id \in DOMAIN puts /\ puts[id].used]
           /\ UNCHANGED <<minTimeInCache, now, capacity>>
           /\ UNCHANGED conVars

NextShared == Tick \/ SharedGetRedirectURL \/ SharedProcessResponse

SpecShared == InitShared /\ [][NextShared]_vars

---------------------------------------------------------------------------
(* The claims about the OAuth 1.0 flow.                                    *)

\* C15: whenever GetRedirectURL returns without error, the token and secret
\* its request-token leg yielded are in the cache (getToken for the token
\* succeeds and gives that secret) and the URL returned is AuthURL, then
\* "?oauth_token=", then the token.
C15_RedirectStoresToken ==
    (last.op = "GetRedirectURL" /\ ~last.panic /\ last.err = NoError) =>
        /\ getToken(Cache, last.id, now).ok
        /\ getToken(Cache, last.id, now).tok.secret = last.secret
        /\ last.url = <<AuthURL>> \o <<"?", "oauth_token", "=">> \o <<last.id>>

\* GetRedirectURL has returned a URL for a token the provider issued, and
\* the call has changed the cache
C15_Witness ==
    /\ last.op = "GetRedirectURL" /\ ~last.panic /\ last.err = NoError
    /\ last.sent = 1 /\ ~last.malformed
    /\ last.id \in {1, 2} /\ last.secret = 1
    /\ ~last.same

\* C17: when the response of the request-token leg does not parse as form
\* data, or lacks oauth_token or oauth_token_secret, GetRedirectURL returns
\* an error and leaves the cache as it was.
C17_MalformedResponseIsError ==
    (last.op = "GetRedirectURL" /\ last.malformed) =>
        /\ ~last.panic
        /\ last.err # NoError
        /\ last.same

\* C18: when the HTTP client of a leg comes back with a transport error and
\* no response, GetRedirectURL / ProcessResponse returns the error and does
\* not panic.
C18_TransportErrorReturned ==
    last.lost => (~last.panic /\ last.err = LegError)

\* C19: a ProcessResponse whose callback has no oauth_token or no
\* oauth_verifier returns the missing-parameter error at once: the cache is
\* not searched and not changed, and no request is sent.
C19_MissingParameterFailsAtOnce ==
    (last.op = "ProcessResponse"
        /\ (last.id = Empty \/ last.verifier = Empty)) =>
        /\ last.err = MissingError
        /\ ~last.panic
        /\ ~last.looked
        /\ last.sent = 0
        /\ last.same

\* a callback named a cached token but carried no verifier
C19_Witness ==
    /\ last.op = "ProcessResponse"
    /\ last.id # Empty /\ last.cached
    /\ last.verifier = Empty
    /\ last.err = MissingError

\* C20: a ProcessResponse whose oauth_token is not in the cache returns the
\* invalid-token error without panicking, sends no request, and leaves the
\* cache as it was.
C20_UnknownTokenIsInvalid ==
    (last.op = "ProcessResponse" /\ last.id # Empty
        /\ last.verifier # Empty /\ ~last.cached) =>
        /\ last.err = InvalidError
        /\ ~last.panic
        /\ last.sent = 0
        /\ last.same

\* a callback with a verifier named a token that is not in the cache, while
\* the cache holds another
C20_Witness ==
    /\ last.op = "ProcessResponse"
    /\ last.id # Empty /\ last.verifier # Empty /\ ~last.cached
    /\ items # <<>>
    /\ last.err = InvalidError

\* a ProcessResponse that found the callback's token in the cache and had a
\* verifier
Exchanging ==
    /\ last.op = "ProcessResponse"
    /\ last.id # Empty /\ last.verifier # Empty /\ last.cached

\* C21: when ProcessResponse is called with a cached token and a verifier
\* and both provider calls succeed (it returns no error), it has sent
\* exactly one access-token exchange and then exactly one user-info
\* request, and the UserData it returns has OAuthVersion "1.0", OAuthToken
\* the access token the exchange returned, OAuthTokenType "Access Token"
\* and OAuthProvider the upper-cased provider name.
C21_SuccessfulExchange ==
    (Exchanging /\ last.err = NoError /\ ~last.panic) =>
        /\ last.legs = <<"access-token", "user-info">>
        /\ last.user.OAuthVersion = "1.0"
        /\ last.user.OAuthToken = last.access
        /\ last.user.OAuthTokenType = "Access Token"
        /\ last.user.OAuthProvider = ToUpper(last.name)
C21_Witness ==
    /\ Exchanging /\ last.err = NoError /\ ~last.panic
    /\ last.access = 1 /\ last.user.OAuthToken = 1
    /\ last.legs = <<"access-token", "user-info">>

\* C22: whenever ProcessResponse returns a non-nil error, the UserData it
\* returns is the empty record.
C22_ErrorGivesEmptyUser ==
    (last.op = "ProcessResponse" /\ last.err # NoError /\ ~last.panic) =>
        last.user = NoUser
C22_Witness ==
    /\ Exchanging /\ last.err = LegError /\ ~last.panic
    /\ last.legs = <<"access-token", "user-info">>
    /\ last.user = NoUser

---------------------------------------------------------------------------
(* The signature engine of oauth1.go: the parameters of a request, its     *)
(* base string and its signature.  Strings are sequences of pieces.        *)

\* url.QueryEscape of one character: a space becomes "+", a character that
\* is not a letter, a digit, "-", "_", "." or "~" becomes "%" and two
\* hexadecimal digits, and a run of unreserved characters stays
escapeChar(ch) ==
    CASE ch = " " -> <<"+">>
      [] ch = "&" -> <<"%", "26">>
      [] ch = "=" -> <<"%", "3D">>
      [] ch = "%" -> <<"%", "25">>
      [] ch = "+" -> <<"%", "2B">>
      [] ch = ":" -> <<"%", "3A">>
      [] ch = "/" -> <<"%", "2F">>
      [] OTHER -> <<ch>>

\* url.QueryEscape
RECURSIVE QueryEscape(_)
QueryEscape(str) ==
    IF str = <<>> THEN <<>>
    ELSE escapeChar(Head(str)) \o QueryEscape(Tail(str))

\* fmt.Sprintf("%v", n) of a non-negative integer: its decimal digits
RECURSIVE Decimal(_)
Decimal(n) ==
    LET digits == <<"0", "1", "2", "3", "4", "5", "6", "7", "8", "9">>
    IN IF n < 10 THEN <<digits[n + 1]>>
       ELSE Decimal(n \div 10) \o <<digits[(n % 10) + 1]>>

\* rand.Intn(100), scaled down: a draw is one of 0..MaxRand
MaxRand == 1

\* the factor of the second draw in the nonce
NonceFactor == 12

\* fmt.Sprintf("%v%v", time.Now().Unix(), rand.Intn(100)+rand.Intn(100)*12)
nonceOf(t, r1, r2) == Decimal(t) \o Decimal(r1 + r2 * NonceFactor)

\* the keys generateParams sets
ParamKeys == {"oauth_callback", "oauth_consumer_key", "oauth_nonce",
              "oauth_signature_method", "oauth_timestamp", "oauth_version",
              oauthToken, oauthSecretToken, oauthVerifier}

\* func (provider *OAuth1ServiceProvider) generateParams(token, secret,
\* verifier string) map[string]string: t1 and t2 are the two readings of
\* the clock, r1 and r2 the two draws
generateParams(config, tok, secret, verifier, t1, t2, r1, r2) ==
    [key \in ParamKeys |->
        CASE key = "oauth_callback" -> config.RedirectURL
          [] key = "oauth_consumer_key" -> config.ClientID
          [] key = "oauth_nonce" -> nonceOf(t1, r1, r2)
          [] key = "oauth_signature_method" -> <<"HMAC-SHA1">>
          [] key = "oauth_timestamp" -> Decimal(t2)
          [] key = "oauth_version" -> <<OAuthVersion1>>
          [] key = oauthToken -> tok
          [] key = oauthSecretToken -> secret
          [] key = oauthVerifier -> verifier]

\* an oauthPair
oauthPair(key, value) == [key |-> key, value |-> value]

\* func toParamList(params map[string]string, order []string) []oauthPair
RECURSIVE toParamList(_, _)
toParamList(params, order) ==
    IF order = <<>> THEN <<>>
    ELSE (IF Head(order) \in DOMAIN params
          THEN <<oauthPair(Head(order), params[Head(order)])>>
          ELSE <<>>) \o toParamList(params, Tail(order))

\* the loop of createBaseString: paramString after the pairs from i on
\* have been appended
RECURSIVE paramString(_, _, _)
paramString(params, i, acc) ==
    IF i > Len(params) THEN acc
    ELSE paramString(params, i + 1,
             IF Len(acc) = 0
             THEN <<params[i].key, "=">> \o QueryEscape(params[i].value)
             ELSE acc \o <<"&", params[i].key, "=">>
                      \o QueryEscape(params[i].value))

\* a createBaseString that writes the verb as it is configured
createBaseStringVerbatim(verb, tourl, params) ==
    <<verb, "&">> \o QueryEscape(tourl) \o <<"&">>
        \o QueryEscape(paramString(params, 1, <<>>))

\* func (provider *OAuth1ServiceProvider) createBaseString(verb, tourl
\* string, params []oauthPair) string
createBaseString(verb, tourl, params) ==
    ToUpper(<<verb>>) \o <<"&">> \o QueryEscape(tourl) \o <<"&">>
        \o QueryEscape(paramString(params, 1, <<>>))

\* secretKey of createMethodSignature
secretKey(clientSecret, oauthSecret) ==
    QueryEscape(clientSecret) \o <<"&">>
        \o (IF Len(oauthSecret) > 0 THEN QueryEscape(oauthSecret) ELSE <<>>)

\* func (provider *OAuth1ServiceProvider) createMethodSignature(baseString,
\* clientSecret, oauthSecret string) string: the base64 text of the
\* HMAC-SHA1 of baseString under secretKey, as the pair that determines it
createMethodSignature(baseString, clientSecret, oauthSecret) ==
    [hmac |-> secretKey(clientSecret, oauthSecret), of |-> baseString]

\* what a leg has put together when it goes on to transmit: the pairs of
\* its base string, the base string, the signing key and the parameters
\* with the signature among them
Signed(pairs, baseString, clientSecret, oauthSecret, params) ==
    [pairs |-> pairs, base |-> baseString,
     key |-> secretKey(clientSecret, oauthSecret),
     params |-> [key \in DOMAIN params \cup {"oauth_signature"} |->
                    IF key = "oauth_signature"
                    THEN createMethodSignature(baseString, clientSecret,
                                               oauthSecret)
                    ELSE params[key]]]

\* fetchOAuthRequestToken, lines 153-160
signRequestToken(config, params) ==
    LET pairs == toParamList(params,
                    <<"oauth_callback", "oauth_consumer_key", "oauth_nonce",
                      "oauth_signature_method", "oauth_timestamp",
                      "oauth_version">>)
    IN Signed(pairs,
              createBaseString(config.RequestTokenVerb,
                               config.RequestTokenURL, pairs),
              config.ClientSecret, <<>>, params)

\* fetchOAuthAccessToken, lines 184-190
signAccessToken(config, authToken, params) ==
    LET pairs == toParamList(params,
                    <<"oauth_consumer_key", "oauth_nonce",
                      "oauth_signature_method",
                      "oauth_timestamp", oauthToken, oauthVerifier,
                      "oauth_version">>)
    IN Signed(pairs,
              createBaseString(config.RequestTokenVerb, config.TokenURL,
                               pairs),
              authToken.token, authToken.secret, params)

\* fetchUserInfo, lines 214-221
signUserInfo(config, accessToken, params) ==
    LET pairs == toParamList(params,
                    <<"oauth_consumer_key", "oauth_nonce",
                      "oauth_signature_method",
                      "oauth_timestamp", oauthToken, "oauth_version">>)
    IN Signed(pairs,
              createBaseString(config.UserInfoVerb, config.UserInfoURL,
                               pairs),
              config.ClientSecret, accessToken.secret, params)

\* the keys of a list of pairs, in order
Keys(pairs) == [i \in DOMAIN pairs |-> pairs[i].key]

\* the names of the parameters a leg transmits: in header mode the pairs
\* createHeader is given (toParamList of the leg's header order), in query
\* mode every entry of params, which getResponseByQuery copies into the
\* url.Values it sends when the verb is one it knows
sentKeys(config, verb, params, headerOrder) ==
    CASE config.AuthTransmissionType = OAuth1HeaderTransmissionType ->
             Range(Keys(toParamList(params, headerOrder)))
      [] config.AuthTransmissionType = OAuth1QueryParamTramssionType ->
             IF verb \in {OAuthVerbGet, OAuthVerbPost}
             THEN DOMAIN params ELSE {}
      [] OTHER -> {}

\* headerParamOrder of the three legs, lines 166, 196 and 228
RequestTokenHeaderOrder ==
    <<"oauth_nonce", "oauth_signature", "oauth_callback",
      "oauth_consumer_key", "oauth_timestamp", "oauth_signature_method",
      "oauth_version">>
AccessTokenHeaderOrder ==
    <<oauthVerifier, "oauth_nonce", "oauth_signature", oauthToken,
      "oauth_consumer_key", "oauth_timestamp", "oauth_signature_method",
      "oauth_version">>
UserInfoHeaderOrder ==
    <<"oauth_consumer_key", "oauth_nonce", "oauth_signature",
      "oauth_signature_method", "oauth_timestamp", oauthToken,
      "oauth_version">>

\* the configurations the signing is run with, as the caller writes them:
\* secrets and URLs with characters QueryEscape rewrites, a verb in lower
\* case
SignRawConfigs ==
    [ProviderName : {<<"t", "w">>},
     ClientID : {<<"id">>},
     ClientSecret : {<<"cs">>, <<"c", " ", "&">>},
     RedirectURL : {<<"cb", ":", "/">>},
     RequestTokenURL : {<<"rt", ":", "/">>},
     TokenURL : {<<"at", "/">>},
     UserInfoURL : {<<"ui", "/">>},
     AuthTransmissionType : {0, OAuth1QueryParamTramssionType},
     RequestTokenVerb : {"", "get"},
     UserInfoVerb : {""}]

\* the tokens and the verifier of a callback, as strings
SignTokens == {[token |-> <<"tk">>, secret |-> <<"ts">>],
               [token |-> <<"tk">>, secret |-> <<"t", "=", " ">>]}

\* last in SpecSign: the provider's config, the leg that was signed last
\* (op) with its token, secret and verifier, the second it was signed in
\* (at), what the leg put together (pairs, base, key, params), its nonce,
\* whether that is the nonce of the request signed before it (repeat), and
\* the names of the parameters the leg transmits (sent)
NoRequest(config) ==
    [op |-> "none", config |-> config, token |-> <<>>, secret |-> <<>>,
     verifier |-> <<>>, at |-> 0, pairs |-> <<>>, base |-> <<>>,
     key |-> <<>>, nonce |-> <<>>, repeat |-> FALSE, sent |-> {}]

InitSign ==
    /\ capacity = 1
    /\ minTimeInCache = 1
    /\ remCapacity = newTokenCache(capacity).remCapacity
    /\ items = newTokenCache(capacity).items
    /\ list = newTokenCache(capacity).list
    /\ now = 0
    /\ \E raw \in SignRawConfigs :
           last = NoRequest(NewOAuth1ServiceProvider(raw))
    /\ puts = <<>>
    /\ NoThreads

\* the readings a second reading of the clock can give after one at t
Later(t) == {t2 \in {t, t + 1} : t2 <= MaxClock}

\* a leg has signed its request and transmits it: q is what it put together
SignedLeg(op, tok, verifier, q, t2, sent) ==
    /\ last' = [last EXCEPT
                   !.op = op, !.token = tok.token, !.secret = tok.secret,
                   !.verifier = verifier, !.at = now,
                   !.pairs = q.pairs, !.base = q.base, !.key = q.key,
                   !.nonce = q.params["oauth_nonce"],
                   !.repeat = q.params["oauth_nonce"] = last.nonce,
                   !.sent = sent]
    /\ now' = t2
    /\ UNCHANGED <<remCapacity, minTimeInCache, items, list, capacity, puts>>
    /\ UNCHANGED conVars

\* the signing and the transmission of fetchOAuthRequestToken
SignRequestToken ==
    \E t2 \in Later(now), r1 \in 0..MaxRand, r2 \in 0..MaxRand :
        \E q \in {signRequestToken(last.config,
                       generateParams(last.config, <<>>, <<>>, <<>>,
                                      now, t2, r1, r2))} :
            SignedLeg("request-token", [token |-> <<>>, secret |-> <<>>],
                      <<>>, q, t2,
                      sentKeys(last.config, last.config.RequestTokenVerb,
                               q.params, RequestTokenHeaderOrder))

\* the signing of fetchOAuthAccessToken for a cached token and a verifier
SignAccessToken ==
    \E t2 \in Later(now), r1 \in 0..MaxRand, r2 \in 0..MaxRand,
       tok \in SignTokens, verifier \in {<<"vf">>} :
        \E q \in {signAccessToken(last.config, tok,
                       generateParams(last.config, tok.token, tok.secret,
                                      verifier, now, t2, r1, r2))} :
            SignedLeg("access-token", tok, verifier, q, t2,
                      sentKeys(last.config, last.config.RequestTokenVerb,
                               q.params, AccessTokenHeaderOrder))

\* the signing of fetchUserInfo for an access token
SignUserInfo ==
    \E t2 \in Later(now), r1 \in 0..MaxRand, r2 \in 0..MaxRand,
       tok \in SignTokens, verifier \in {<<"vf">>} :
        \E q \in {signUserInfo(last.config, tok,
                       generateParams(last.config, tok.token, tok.secret,
                                      verifier, now, t2, r1, r2))} :
            SignedLeg("user-info", tok, verifier, q, t2,
                      sentKeys(last.config, last.config.UserInfoVerb,
                               q.params, UserInfoHeaderOrder))

NextSign == Tick \/ SignRequestToken \/ SignAccessToken \/ SignUserInfo

SpecSign == InitSign /\ [][NextSign]_vars

---------------------------------------------------------------------------
(* The claims about the signature engine.                                  *)

\* the percent-encoding of OAuth 1.0: as url.QueryEscape, but a space is
\* "%20"
RECURSIVE percentEncode(_)
percentEncode(str) ==
    IF str = <<>> THEN <<>>
    ELSE (IF Head(str) = " " THEN <<"%", "20">> ELSE escapeChar(Head(str)))
             \o percentEncode(Tail(str))

\* the token secret the claim names for the leg signed last
TokenSecret == IF last.op = "request-token" THEN <<>> ELSE last.secret

\* C23: in every leg the HMAC-SHA1 signing key is the percent-encoded
\* client secret of the config, "&", and the percent-encoded token secret:
\* empty for the request-token leg, the cached request-token secret for the
\* access-token leg, the access-token secret for the user-info leg.
C23_SigningKey ==
    last.op # "none" =>
        last.key = percentEncode(last.config.ClientSecret) \o <<"&">>
                       \o percentEncode(TokenSecret)

\* the value of a key in a list of pairs that has it
ValueOf(pairs, key) ==
    pairs[CHOOSE i \in DOMAIN pairs : pairs[i].key = key].value

\* key=encoded(value) of each pair, joined with "&" in the order of the list
RECURSIVE Joined(_)
Joined(pairs) ==
    IF pairs = <<>> THEN <<>>
    ELSE LET n == Len(pairs)
             item == <<pairs[n].key, "=">> \o QueryEscape(pairs[n].value)
         IN IF n = 1 THEN item
            ELSE Joined(SubSeq(pairs, 1, n - 1)) \o <<"&">> \o item

\* VERB (upper-cased) & encoded URL & encoded joined parameters
BaseOf(verb, tourl, pairs) ==
    <<UpperChar(verb), "&">> \o QueryEscape(tourl) \o <<"&">>
        \o QueryEscape(Joined(pairs))

\* C24: the base string of the request-token leg lists oauth_callback,
\* oauth_consumer_key, oauth_nonce, oauth_signature_method, oauth_timestamp
\* and oauth_version, that of the access-token leg oauth_consumer_key,
\* oauth_nonce, oauth_signature_method, oauth_timestamp, oauth_token,
\* oauth_verifier and oauth_version, in this order and with the values of
\* the request, and the base string is the upper-cased verb, "&", the
\* encoded URL, "&", and the encoded parameters joined in that order.
C24_BaseString ==
    /\ last.op = "request-token" =>
          /\ Keys(last.pairs) =
                 <<"oauth_callback", "oauth_consumer_key", "oauth_nonce",
                   "oauth_signature_method", "oauth_timestamp",
                   "oauth_version">>
          /\ ValueOf(last.pairs, "oauth_callback") = last.config.RedirectURL
          /\ ValueOf(last.pairs, "oauth_consumer_key") = last.config.ClientID
          /\ last.base = BaseOf(last.config.RequestTokenVerb,
                                last.config.RequestTokenURL, last.pairs)
    /\ last.op = "access-token" =>
          /\ Keys(last.pairs) =
                 <<"oauth_consumer_key", "oauth_nonce",
                   "oauth_signature_method", "oauth_timestamp",
                   "oauth_token", "oauth_verifier", "oauth_version">>
          /\ ValueOf(last.pairs, "oauth_token") = last.token
          /\ ValueOf(last.pairs, "oauth_verifier") = last.verifier
          /\ ValueOf(last.pairs, "oauth_nonce") = last.nonce
          /\ last.base = BaseOf(last.config.RequestTokenVerb,
                                last.config.TokenURL, last.pairs)
C24_Witness ==
    /\ last.op = "access-token"
    /\ last.config.RequestTokenVerb = "get"
    /\ last.secret = <<"t", "=", " ">>
    /\ last.base[1] = "GET"
    /\ Len(last.pairs) = 7

\* C25: any two signed requests carry different nonces, two signed within
\* the same second included.
C25_NoncesDiffer == ~last.repeat

---------------------------------------------------------------------------
(* The construction of a provider.                                         *)

\* OAuth1ServiceProviderConfig{}
ZeroConfig == [ProviderName |-> <<>>, ClientID |-> <<>>,
               AuthTransmissionType |-> 0, RequestTokenVerb |-> "",
               UserInfoVerb |-> ""]

\* last in SpecNew: the config the constructor was called with last (raw)
\* and the config of the provider it returned (config)
NoProvider == [op |-> "none", raw |-> ZeroConfig, config |-> ZeroConfig]

InitNew ==
    /\ capacity = 1
    /\ minTimeInCache = 1
    /\ remCapacity = newTokenCache(capacity).remCapacity
    /\ items = newTokenCache(capacity).items
    /\ list = newTokenCache(capacity).list
    /\ now = 0
    /\ last = NoProvider
    /\ puts = <<>>
    /\ NoThreads

\* one call of NewOAuth1ServiceProvider
Construct ==
    /\ \E raw \in RawConfigs :
           last' = [op |-> "NewOAuth1ServiceProvider", raw |-> raw,
                    config |-> NewOAuth1ServiceProvider(raw)]
    /\ UNCHANGED <<remCapacity, minTimeInCache, items, list, now, capacity,
                   puts>>
    /\ UNCHANGED conVars

NextNew == Construct

SpecNew == InitNew /\ [][NextNew]_vars

\* C26: NewOAuth1ServiceProvider upper-cases the provider name, turns an
\* empty RequestTokenVerb into POST, an empty UserInfoVerb into GET and a
\* transmission type below 1 into header mode, and keeps every field that
\* was supplied with a valid value (GET or POST, header or query mode, any
\* client id).
C26_ConfigNormalised ==
    last.op = "NewOAuth1ServiceProvider" =>
        /\ Len(last.config.ProviderName) = Len(last.raw.ProviderName)
        /\ \A i \in DOMAIN last.raw.ProviderName :
               last.config.ProviderName[i] =
                   (CASE last.raw.ProviderName[i] = "t" -> "T"
                      [] last.raw.ProviderName[i] = "w" -> "W"
                      [] OTHER -> last.raw.ProviderName[i])
        /\ last.raw.RequestTokenVerb = "" =>
               last.config.RequestTokenVerb = "POST"
        /\ last.raw.UserInfoVerb = "" => last.config.UserInfoVerb = "GET"
        /\ last.raw.AuthTransmissionType < 1 =>
               last.config.AuthTransmissionType = OAuth1HeaderTransmissionType
        /\ last.raw.RequestTokenVerb \in {"GET", "POST"} =>
               last.config.RequestTokenVerb = last.raw.RequestTokenVerb
        /\ last.raw.UserInfoVerb \in {"GET", "POST"} =>
               last.config.UserInfoVerb = last.raw.UserInfoVerb
        /\ last.raw.AuthTransmissionType \in {1, 2} =>
               last.config.AuthTransmissionType =
                   last.raw.AuthTransmissionType
        /\ last.config.ClientID = last.raw.ClientID
C26_Witness ==
    /\ last.op = "NewOAuth1ServiceProvider"
    /\ last.raw.ProviderName = <<"T", "w">>
    /\ last.config.ProviderName = <<"T", "W">>
    /\ last.raw.RequestTokenVerb = "GET" /\ last.raw.UserInfoVerb = ""
    /\ last.raw.AuthTransmissionType = 0
    /\ last.config.AuthTransmissionType = 1

---------------------------------------------------------------------------
(* The configuration of providers from a JSON or YAML document.            *)

OAuthVersion2 == "2.0"

\* strings.ToLower, piece by piece
LowerChar(ch) ==
    CASE ch = "T" -> "t"
      [] ch = "W" -> "w"
      [] OTHER -> ch
ToLower(str) == [i \in DOMAIN str |-> LowerChar(str[i])]

\* map[string]interface{}: a key is in the map (found) with a value, or not
Missing(zero) == [found |-> FALSE, value |-> zero]
Found(value) == [found |-> TRUE, value |-> value]

\* the OAuthVersion of an entry as the document writes it: a number in
\* hundredths, written with a decimal point or without, or a string
NoVersion == [kind |-> "number", hundredths |-> 0, point |-> FALSE]
VersionLiterals ==
    {[kind |-> "number", hundredths |-> 100, point |-> TRUE],
     [kind |-> "number", hundredths |-> 100, point |-> FALSE],
     [kind |-> "number", hundredths |-> 200, point |-> TRUE],
     [kind |-> "number", hundredths |-> 300, point |-> TRUE],
     [kind |-> "string", hundredths |-> 100, point |-> TRUE]}

\* the entries of a document: each key is there or not
Entries ==
    [ClientID : {Missing(<<>>), Found(<<"id">>)},
     ClientSecret : {Missing(<<>>), Found(<<"cs">>)},
     OAuthVersion : {Missing(NoVersion)} \cup
                    {Found(v) : v \in VersionLiterals}]

\* the provider keys of a document, and the documents
ProviderKeys == {<<"T", "w">>, <<"gh">>}
Docs == UNION {[K -> Entries] : K \in SUBSET ProviderKeys}

\* the environment: the variables that are set, each to "env"
Envs == SUBSET {<<"T", "W", "_CLIENT_ID">>, <<"T", "W", "_CLIENT_SECRET">>}

\* os.Getenv
Getenv(env, name) == IF name \in env THEN <<"env">> ELSE <<>>

\* the Go type json.Decoder and yaml.Unmarshal give a value of the
\* document: JSON numbers are float64, YAML numbers without a decimal
\* point are int
kindOf(format, v) ==
    IF v.kind = "string" THEN "string"
    ELSE IF format = "json" \/ v.point THEN "float64"
    ELSE "int"

\* strconv.FormatFloat(v, 'f', 1, 32) of the numbers of VersionLiterals
FormatFloat(hundredths) ==
    LET tenths == (hundredths + 5) \div 10
    IN CASE tenths = 10 -> "1.0"
         [] tenths = 20 -> "2.0"
         [] tenths = 30 -> "3.0"
         [] OTHER -> "0.0"

\* what the loop body of makeProvidersFromMap makes of one entry
Made(err, version, config) ==
    [err |-> err, version |-> version, config |-> config]

\* if the key is not in the file data get it from the environment
orGetenv(conf, key, env, name) ==
    IF ~conf[key].found
    THEN [conf EXCEPT ![key] = Found(Getenv(env, name))]
    ELSE conf

\* configureNewOAuthServiceProvider into an OAuth1ServiceProviderConfig{}
\* or an OAuth2ServiceProviderConfig{}: the fields of the struct that conf
\* has (ClientID stands for ClientSecret and RedirectURL too)
configured(conf, providerName) ==
    [ZeroConfig EXCEPT
        !.ProviderName = providerName,
        !.ClientID = conf.ClientID.value]

\* NewOAuth2ServiceProvider: the name is upper-cased
NewOAuth2ServiceProvider(config) ==
    [config EXCEPT !.ProviderName = ToUpper(@)]

\* the checks and the switch of the loop body, lines 234-266, for the conf
\* after the environment was consulted
checked(format, conf, providerName) ==
    IF ~conf.ClientID.found
    THEN Made("No Client ID could be found", "", ZeroConfig)
    ELSE IF ~conf.ClientSecret.found
    THEN Made("No Client Secret could be found", "", ZeroConfig)
    ELSE IF ~conf.OAuthVersion.found THEN Made("No OAuth Version found", "",
                                            ZeroConfig)
    ELSE IF kindOf(format, conf.OAuthVersion.value) # "float64"
    THEN Made("not a float", "", ZeroConfig)
    ELSE CASE FormatFloat(conf.OAuthVersion.value.hundredths)
                  = OAuthVersion1 ->
                  Made(NoError, OAuthVersion1,
                       NewOAuth1ServiceProvider(
                           configured(conf, providerName)))
           [] FormatFloat(conf.OAuthVersion.value.hundredths)
                  = OAuthVersion2 ->
                  Made(NoError, OAuthVersion2,
                       NewOAuth2ServiceProvider(
                           configured(conf, providerName)))
           [] OTHER -> Made("Invalid OAuth version", "", ZeroConfig)

\* the loop body of makeProvidersFromMap for the entry conf of provider
makeProvider(format, provider, conf, env) ==
    checked(format,
        orGetenv(orGetenv(conf, "ClientID", env,
                          ToUpper(provider) \o <<"_CLIENT_ID">>),
                 "ClientSecret", env,
                 ToUpper(provider) \o <<"_CLIENT_SECRET">>),
        ToLower(provider))

\* the loop of makeProvidersFromMap over the entries in the order the map
\* is ranged over: the providers made so far are returned with the first
\* error
RECURSIVE makeProvidersFromMap(_, _, _, _, _)
makeProvidersFromMap(format, m, env, order, providers) ==
    IF order = <<>> THEN [providers |-> providers, err |-> NoError]
    ELSE LET made == makeProvider(format, Head(order), m[Head(order)], env)
         IN IF made.err # NoError
            THEN [providers |-> providers, err |-> made.err]
            ELSE makeProvidersFromMap(format, m, env, Tail(order),
                     providers \cup
                         {[key |-> ToLower(Head(order)),
                           version |-> made.version,
                           config |-> made.config]})

\* the orders a map can be ranged over
Orders(K) == {order \in [1..Cardinality(K) -> K] :
                 \A k \in K : \E i \in DOMAIN order : order[i] = k}

\* ConfigureProvidersFromJSON and ConfigureProvidersFromYAML: the reader
\* gives a document that decodes, or it does not
ConfigureProviders(format, decodes, m, env, order) ==
    IF ~decodes THEN [providers |-> {}, err |-> "decode"]
    ELSE makeProvidersFromMap(format, m, env, order, {})

\* last in SpecConfigure: the document, its format, whether it decodes,
\* the environment, and what the call returned
Unconfigured(format, decodes, m, env) ==
    [op |-> "none", format |-> format, decodes |-> decodes, doc |-> m,
     env |-> env, providers |-> {}, err |-> NoError]

InitConfigure ==
    /\ capacity = 1
    /\ minTimeInCache = 1
    /\ remCapacity = newTokenCache(capacity).remCapacity
    /\ items = newTokenCache(capacity).items
    /\ list = newTokenCache(capacity).list
    /\ now = 0
    /\ \E format \in {"json", "yaml"}, decodes \in BOOLEAN, m \in Docs,
          env \in Envs :
           last = Unconfigured(format, decodes, m, env)
    /\ puts = <<>>
    /\ NoThreads

\* the call of ConfigureProvidersFromJSON or ConfigureProvidersFromYAML
Configure ==
    /\ last.op = "none"
    /\ \E order \in Orders(DOMAIN last.doc) :
           \E r \in {ConfigureProviders(last.format, last.decodes, last.doc,
                                        last.env, order)} :
              last' = [last EXCEPT !.op = "ConfigureProviders",
                                   !.providers = r.providers,
                                   !.err = r.err]
    /\ UNCHANGED <<remCapacity, minTimeInCache, items, list, now, capacity,
                   puts>>
    /\ UNCHANGED conVars

NextConfigure == Configure

SpecConfigure == InitConfigure /\ [][NextConfigure]_vars

---------------------------------------------------------------------------
(* The state flag of the OAuth 2.0 provider. In this part a string is the  *)
(* sequence of its characters and the clock counts fractions of a second.  *)

\* oauth2StateFlagMaxAgeSeconds
oauth2StateFlagMaxAgeSeconds == 300

\* oauth2StateFlagPrefix
oauth2StateFlagPrefix == <<"G", "O", "A", "U", "T", "H", "2", "0">>

\* the instants of the clock in one second, and the latest instant at
\* which a run begins
Ticks == 2
MaxStart == 3

\* time.Now().Unix() at instant t
Unix(t) == t \div Ticks

\* the byte of a character and the character of a byte (ASCII)
Chars == <<"0", "1", "2", "3", "4", "5", "6", "7", "8", "9", "A", "B",
           "G", "H", "O", "T", "U", "W", "|">>
Bytes == <<48, 49, 50, 51, 52, 53, 54, 55, 56, 57, 65, 66,
           71, 72, 79, 84, 85, 87, 124>>
ByteOf(ch) == Bytes[CHOOSE i \in DOMAIN Chars : Chars[i] = ch]
CharOf(b) ==
    IF \E i \in DOMAIN Bytes : Bytes[i] = b
    THEN Chars[CHOOSE i \in DOMAIN Bytes : Bytes[i] = b]
    ELSE "?"

\* the padding character "=" of base64 among the indices of its alphabet
Pad == 64

\* base64.StdEncoding.EncodeToString: every three bytes become four indices
\* into the alphabet, the last group is padded
RECURSIVE EncodeToString(_)
EncodeToString(src) ==
    IF src = <<>> THEN <<>>
    ELSE IF Len(src) = 1
    THEN <<src[1] \div 4, (src[1] % 4) * 16, Pad, Pad>>
    ELSE IF Len(src) = 2
    THEN <<src[1] \div 4, (src[1] % 4) * 16 + src[2] \div 16,
           (src[2] % 16) * 4, Pad>>
    ELSE <<src[1] \div 4, (src[1] % 4) * 16 + src[2] \div 16,
           (src[2] % 16) * 4 + src[3] \div 64, src[3] % 64>>
             \o EncodeToString(SubSeq(src, 4, Len(src)))

\* the bytes of one group of four indices; padding stands only at the end
\* of the last group
Quantum(q, final) ==
    IF q[1] = Pad \/ q[2] = Pad \/ (q[3] = Pad /\ q[4] # Pad)
       \/ (q[3] = Pad /\ ~final) \/ (q[4] = Pad /\ ~final)
    THEN [bytes |-> <<>>, err |-> TRUE]
    ELSE IF q[3] = Pad
    THEN [bytes |-> <<q[1] * 4 + q[2] \div 16>>, err |-> FALSE]
    ELSE IF q[4] = Pad
    THEN [bytes |-> <<q[1] * 4 + q[2] \div 16,
                      (q[2] % 16) * 16 + q[3] \div 4>>, err |-> FALSE]
    ELSE [bytes |-> <<q[1] * 4 + q[2] \div 16,
                      (q[2] % 16) * 16 + q[3] \div 4,
                      (q[3] % 4) * 64 + q[4]>>, err |-> FALSE]

\* base64.StdEncoding.DecodeString
RECURSIVE DecodeString(_)
DecodeString(str) ==
    IF str = <<>> THEN [bytes |-> <<>>, err |-> FALSE]
    ELSE IF Len(str) < 4 THEN [bytes |-> <<>>, err |-> TRUE]
    ELSE LET head == Quantum(SubSeq(str, 1, 4), Len(str) = 4)
             rest == DecodeString(SubSeq(str, 5, Len(str)))
         IN [bytes |-> head.bytes \o rest.bytes,
             err |-> head.err \/ rest.err]

\* []byte(s) and string(b)
ToBytes(str) == [i \in DOMAIN str |-> ByteOf(str[i])]
StringOf(bytes) == [i \in DOMAIN bytes |-> CharOf(bytes[i])]

\* strings.Split(s, "|"): the pieces between the separators, from the
\* piece acc that is being read on
RECURSIVE Split(_, _)
Split(str, acc) ==
    IF str = <<>> THEN <<acc>>
    ELSE IF Head(str) = "|" THEN <<acc>> \o Split(Tail(str), <<>>)
    ELSE Split(Tail(str), Append(acc, Head(str)))

\* strconv.Atoi of a string without a sign: its value, or an error when it
\* is empty or holds a character that is no digit
RECURSIVE Atoi(_)
Atoi(str) ==
    IF str = <<>> THEN [value |-> 0, err |-> TRUE]
    ELSE LET digit == ByteOf(str[Len(str)]) - 48
             front == IF Len(str) = 1 THEN [value |-> 0, err |-> FALSE]
                      ELSE Atoi(SubSeq(str, 1, Len(str) - 1))
         IN IF digit \notin 0..9 THEN [value |-> 0, err |-> TRUE]
            ELSE [value |-> front.value * 10 + digit, err |-> front.err]

\* func generateStateFlag(provider string) string, called at instant t
generateStateFlag(provider, t) ==
    EncodeToString(ToBytes(oauth2StateFlagPrefix \o <<"|">>
                               \o Decimal(Unix(t)) \o <<"|">> \o provider))

\* dur.Seconds() > oauth2StateFlagMaxAgeSeconds, for the flag stamped with
\* the second created and the instant t of the validation
tooOld(created, t) ==
    t - created * Ticks > oauth2StateFlagMaxAgeSeconds * Ticks

\* the checks of validateStateFlag on the decoded flag
validateDecoded(providerName, vals, t) ==
    IF Len(vals) # 3 \/ vals[1] # oauth2StateFlagPrefix
    THEN "invalid format"
    ELSE IF vals[3] # providerName THEN "invalid provider"
    ELSE IF Atoi(vals[2]).err THEN "invalid syntax"
    ELSE IF tooOld(Atoi(vals[2]).value, t) THEN "timed out"
    ELSE "nil"

\* func (provider *OAuth2ServiceProvider) validateStateFlag(request): the
\* error it returns for the state parameter stateFlag at instant t
validateStateFlag(providerName, stateFlag, t) ==
    IF Len(stateFlag) = 0 THEN "no flag found"
    ELSE IF DecodeString(stateFlag).err THEN "illegal base64 data"
    ELSE validateDecoded(providerName,
             Split(StringOf(DecodeString(stateFlag).bytes), <<>>), t)

\* the names the OAuth 2.0 providers are configured with
StateNames == {<<"t", "w">>, <<"G", "H">>, <<"t", "|", "w">>}
StateProviders ==
    {NewOAuth2ServiceProvider([ProviderName |-> n]) : n \in StateNames}

\* a state parameter that is no base64 text
NoBase64 == <<19, 22, Pad>>

\* last in SpecState: the call (op), the flag GetRedirectURL put into the
\* redirect URL last, the name of the provider that made it and the instant
\* it was made at (flag, name, created), the provider that validated, the
\* instant of the validation and the error returned (validator, at, err),
\* and whether the state parameter validated was that flag (own)
NoFlag == [op |-> "none", flag |-> <<>>, name |-> <<>>, created |-> 0,
           validator |-> <<>>, at |-> 0, err |-> "nil", own |-> FALSE]

\* the instants of a run: the first ones, and the ones around the maximum
\* age of a flag that was made at one of the first
StateHorizon == MaxStart + oauth2StateFlagMaxAgeSeconds * Ticks + Ticks
Instants ==
    (0..MaxStart)
        \cup ((oauth2StateFlagMaxAgeSeconds * Ticks - 1)..StateHorizon)

InitState ==
    /\ capacity = 1
    /\ minTimeInCache = 1
    /\ remCapacity = newTokenCache(capacity).remCapacity
    /\ items = newTokenCache(capacity).items
    /\ list = newTokenCache(capacity).list
    /\ now \in 0..MaxStart
    /\ last = NoFlag
    /\ puts = <<>>
    /\ NoThreads

\* GetRedirectURL of an OAuth 2.0 provider, line 93
StateGetRedirectURL ==
    /\ \E p \in StateProviders :
          last' = [NoFlag EXCEPT
                      !.op = "GetRedirectURL",
                      !.flag = generateStateFlag(p.ProviderName, now),
                      !.name = p.ProviderName,
                      !.created = now]
    /\ UNCHANGED <<remCapacity, minTimeInCache, items, list, now, capacity,
                   puts>>
    /\ UNCHANGED conVars

\* ProcessResponse of an OAuth 2.0 provider with a callback that carries a
\* code, lines 100-104: the state parameter is the flag of the redirect,
\* is missing, or is something else
StateProcessResponse ==
    /\ last.op # "none"
    /\ \E p \in StateProviders, stateFlag \in {last.flag, <<>>, NoBase64} :
          last' = [last EXCEPT
                      !.op = "ProcessResponse",
                      !.validator = p.ProviderName,
                      !.at = now,
                      !.own = stateFlag = last.flag,
                      !.err = validateStateFlag(p.ProviderName, stateFlag,
                                                now)]
    /\ UNCHANGED <<remCapacity, minTimeInCache, items, list, now, capacity,
                   puts>>
    /\ UNCHANGED conVars

\* time passes, up to a later instant of the run
Wait ==
    /\ \E t \in Instants :
          /\ t > now
          /\ now' = t
    /\ UNCHANGED <<remCapacity, minTimeInCache, items, list, capacity, last,
                   puts>>
    /\ UNCHANGED conVars

NextState == Wait \/ StateGetRedirectURL \/ StateProcessResponse

SpecState == InitState /\ [][NextState]_vars

\* the entry of provider k has neither the key in the document nor the
\* variable in the environment
Unset(k, key, suffix) ==
    /\ ~last.doc[k][key].found
    /\ ToUpper(k) \o <<suffix>> \notin last.env

\* C27: ConfigureProvidersFromJSON / ConfigureProvidersFromYAML return an
\* error when an entry has no ClientID (or no ClientSecret) in the document
\* and the <PROVIDER>_CLIENT_ID (or _CLIENT_SECRET) variable is not set,
\* and when the entry has no OAuthVersion; no provider is created for that
\* entry.
C27_MissingSettingIsError ==
    (last.op = "ConfigureProviders" /\ last.decodes) =>
        \A k \in DOMAIN last.doc :
            (\/ Unset(k, "ClientID", "_CLIENT_ID")
             \/ Unset(k, "ClientSecret", "_CLIENT_SECRET")
             \/ ~last.doc[k].OAuthVersion.found) =>
                /\ last.err # NoError
                /\ \A p \in last.providers : p.key # ToLower(k)

---------------------------------------------------------------------------
(* More claims about the cache.                                            *)

\* the j-th entry from the least recently used end of the list
FromBack(j) == list[Len(list) + 1 - j]

\* C28: one eviction run removes entries only from the least recently used
\* end of the list, at most 50 of them, and stops right after the first
\* removed entry whose age is below the minimum retention: every entry it
\* removed before the last one was old enough, so a put removes at most one
\* entry that is too young.
C28_EvictionRun ==
    [][(last'.op = "addToken" /\ now' = now) =>
          /\ last'.evicted <= 50
          /\ last'.evicted <= Len(list)
          /\ Without(list', last'.id) =
                 Without(SubSeq(list, 1, Len(list) - last'.evicted),
                         last'.id)
          /\ \A j \in 1..(last'.evicted - 1) :
                 now - items[FromBack(j)].timeIn >= minTimeInCache
          /\ Cardinality({j \in 1..last'.evicted :
                 now - items[FromBack(j)].timeIn < minTimeInCache}) <= 1
      ]_vars
C28_Witness ==
    /\ last.op = "addToken"
    /\ Len(last.before) = TrimBatch + 1
    /\ last.evicted = TrimBatch
    /\ list = <<last.id, 1>>

\* C29: in every reachable state of the cache, walking the list from the
\* most recently used entry to the least recently used one, the timestamps
\* of the entries do not increase, so the least recently used entry has
\* the oldest timestamp of all.
C29_OrderAgreesWithTimestamps ==
    \A i \in 1..(Len(elems) - 1) :
        heap[elems[i]].timeIn >= heap[elems[i + 1]].timeIn

\* C30: in every state reached by addToken and getToken calls executed one
\* at a time, the remaining capacity plus the number of map entries is the
\* capacity given at construction, the list is as long as the map has
\* entries, and the remaining capacity is not negative.
C30_CapacityAccounting ==
    /\ remCapacity + Cardinality(DOMAIN items) = capacity
    /\ Len(list) = Cardinality(DOMAIN items)
    /\ remCapacity >= 0
C30_Witness ==
    /\ capacity = MaxCapacity
    /\ remCapacity = 0
    /\ last.op = "addToken" /\ last.full /\ last.evicted >= 1
    /\ Len(list) = capacity

\* C31: under a fair scheduler every addToken and getToken call that has
\* begun eventually returns, and a goroutine that is not inside a call never
\* holds the mutex (so every return path, the "cache full" one included,
\* has unlocked it).
C31_EveryCallReturnsUnlocked ==
    /\ [](\A t \in Threads : pc[t] = "idle" => mutex # t)
    /\ \A t \in Threads : (pc[t] # "idle") ~> (pc[t] = "idle")

\* the only call so far was an addToken on a cache without capacity: it has
\* returned through the "cache full" path and the mutex is free
C31_Witness ==
    /\ capacity = 0 /\ calls = 1 /\ last.op = "addToken"
    /\ \A t \in Threads : pc[t] = "idle"
    /\ mutex = 0 /\ elems = <<>>

\* C32: ProcessResponse sends the user-info request only after an
\* access-token exchange that completed without error and whose response
\* contained the token; when the exchange fails, or its response does not
\* parse or lacks the token or the secret, ProcessResponse returns an error
\* and sends no user-info request.
C32_UserInfoOnlyAfterToken ==
    last.op = "ProcessResponse" =>
       /\ "user-info" \in Range(last.legs) => last.answer = "token"
       /\ last.answer \in {"failed", "lacking"} =>
             /\ ~last.panic /\ last.err # NoError
             /\ "user-info" \notin Range(last.legs)

\* C33: a request token is accepted only by the provider instance that
\* issued it: whenever ProcessResponse of a provider performs the
\* access-token exchange, the callback's token was cached by GetRedirectURL
\* of that same provider.
C33_TokenBoundToIssuer ==
    (last.op = "ProcessResponse" /\ "access-token" \in Range(last.legs))
        => last.issuer = last.client

\* C34: a request token is single-use: a ProcessResponse never performs the
\* access-token exchange for a token with which an earlier ProcessResponse
\* has reached the exchange already.
C34_TokenSingleUse ==
    (last.op = "ProcessResponse" /\ "access-token" \in Range(last.legs))
        => ~last.used

\* C35: no token secret is transmitted: in header mode and in query mode,
\* in each of the three legs, the parameters sent are the parameters of the
\* signed base string and oauth_signature, and oauth_token_secret is not
\* among them.
C35_NoSecretTransmitted ==
    (last.op # "none" /\ last.sent # {}) =>
        /\ last.sent = Range(Keys(last.pairs)) \cup {"oauth_signature"}
        /\ oauthSecretToken \notin last.sent

\* C36: for every configuration NewOAuth1ServiceProvider accepts, a
\* GetRedirectURL call that returns a nil error has sent exactly one
\* request-token request, and the token it caches is taken from that
\* request's response.
C36_RedirectSentOneRequest ==
    (last.op = "GetRedirectURL" /\ ~last.panic /\ last.err = NoError) =>
        /\ last.sent = 1
        /\ last.id # Empty
        /\ last.id \in DOMAIN items

\* the age of the flag at its validation, in instants
FlagAge == last.at - last.created

\* C37: a state flag that generateStateFlag produced for provider name P is
\* accepted by validateStateFlag of the provider named P when it is
\* presented at most 300 seconds after its creation, and is rejected when
\* it is presented later than that or to a provider with another name.
C37_StateFlagRoundTrip ==
    (last.op = "ProcessResponse" /\ last.own) =>
        /\ (/\ last.validator = last.name
            /\ FlagAge <= oauth2StateFlagMaxAgeSeconds * Ticks)
               => last.err = "nil"
        /\ (\/ last.validator # last.name
            \/ FlagAge > oauth2StateFlagMaxAgeSeconds * Ticks)
               => last.err # "nil"

====
